---- MODULE Spec2Model ----
(***************************************************************************)
(* Usage accumulation and persistence of the internet speed monitor:       *)
(*   NetworkProvider      (infrastructure/system/network_provider.py)      *)
(*   SpeedMonitorService  (application/services/speed_monitor_service.py)  *)
(*   SqliteUsageRepository (infrastructure/database/                       *)
(*                          sqlite_usage_repository.py)                    *)
(*                                                                         *)
(* SpecNet drives NetworkProvider.snapshot() alone over counter readings   *)
(* that rise and fall.  Spec drives the service: one action per loop       *)
(* iteration (snapshot, _accumulate with its flushes), the wall clock,     *)
(* start() and stop(), with every store write free to fail.                *)
(***************************************************************************)
EXTENDS Integers, Sequences, FiniteSets, TLC

VARIABLES
    counters,       \* psutil: the cumulative <<bytes_sent, bytes_recv>> last read
    prev_counters,  \* history: the reading before that one
    now,            \* the wall clock: what date.today() returns
    net,            \* NetworkProvider: _last_sent, _last_recv
    svc,            \* SpeedMonitorService: _running, _today, totals, _flush_counter
    daily_usage,    \* the daily_usage table: a set of rows
    snap,           \* the SpeedSnapshot returned by the last snapshot()
    op,             \* the operation that produced this state
    calls,          \* the upsert_daily invocations made by that operation
    escaped,        \* an exception left _flush during that operation
    pre,            \* history: today_usage when that operation began
    n_snap,         \* history: snapshot() calls that returned
    n_upserts,      \* history: upsert_daily invocations
    n_stops,        \* history: stop() calls
    folded,         \* history: per date, snapshots folded while date.today() was it
    owed,           \* history: per date, the totals of the latest failed flush
    delivered,      \* the snapshot on_speed_update was called with, or None
    callback,       \* how that call ended: "not called", "returned", "raised"
    arg,            \* the arguments of the latest repository call
    ret,            \* what the latest repository call returned
    rows_pre,       \* history: the table when that call began
    passed,         \* history: per date, the largest peaks passed to upsert_daily
    n_restarts,     \* history: restarts of the process
    pc,             \* the loop thread: the statement of _loop it is at
    loop_now,       \* the loop thread: the local `now` of _accumulate
    loop_ctx,       \* the execution context _loop runs in
    caller_pc,      \* the thread that calls stop(): the statement it is at
    usage_read,     \* that thread: the DailyUsage today_usage is building
    issued,         \* history: who made each upsert_daily call, and where
    ctx,            \* history: the execution context of the latest step
    day_sum,        \* history: per date, the totals folded while _today was it
    stood,          \* history: the totals as they stood between two folds
    stop_sum,       \* history: day_sum when stop() was first called
    writer,         \* the thread inside upsert_daily: its statement and usage
    reader,         \* the thread inside a query: the rows its cursor fetched
    versions,       \* history: the complete rows the table held during a query
    slot,           \* SpeedMonitorService: _on_speed_update, or "None"
    subscribed,     \* history: handlers passed to subscribe(), not to unsubscribe()
    inbox,          \* history: per handler, the numbers of the snapshots it got
    expected,       \* history: per handler, those produced while it was registered
    raised,         \* the exception the latest call raised, or "None"
    monitored_adapter,  \* AppConfig.monitored_adapter of the shared config
    pernic,         \* psutil: per interface present, its <<bytes_sent, bytes_recv>>
    bytes_read,     \* what the latest _get_current_bytes() returned
    target0,        \* history: monitored_adapter when the provider was built
    pernic_read     \* history: the interfaces and counters at the latest read

loop_vars == <<delivered, callback>>

repo_vars == <<arg, ret, rows_pre, passed>>

conc_vars == <<pc, loop_now, loop_ctx, caller_pc, usage_read, issued, ctx,
               day_sum, stood, stop_sum>>

sql_vars == <<writer, reader, versions>>

sub_vars == <<slot, subscribed, inbox, expected, raised>>

nic_vars == <<monitored_adapter, pernic, bytes_read, target0, pernic_read>>

vars == <<counters, prev_counters, now, net, svc, daily_usage, snap, op, calls,
          escaped, pre, n_snap, n_upserts, n_stops, folded, owed, loop_vars,
          repo_vars, n_restarts, conc_vars, sql_vars, sub_vars, nic_vars>>

----------------------------------------------------------------------------
(* Bounds *)

MaxSnapshots == 3       \* SpecNet: snapshot() calls
MaxDay == 2             \* Spec: dates are 1..MaxDay
MaxSamples == 11        \* Spec: successful samples
MaxStops == 1           \* Spec: stop() calls
MaxSteadySamples == 21  \* SpecSteady: successful samples

Days == 1..MaxDay

\* Counter readings of SpecNet: they hold the readings (1000,2000),
\* (1500,2500), (1200,2400) and zero.
NetSent == {0, 1000, 1200, 1500}
NetRecv == {0, 2000, 2400, 2500}
NetReadings == NetSent \X NetRecv

\* Counter readings of Spec: traffic in both directions, and a reset.
SvcReadings == {<<0, 0>>, <<1, 2>>}

MaxLoopSamples == 10    \* SpecLoop: snapshot() calls that returned
MaxResumeSamples == 2   \* SpecResume: successful samples
MaxRestarts == 1        \* SpecResume: restarts of the process
MaxConcSamples == 10    \* SpecConc: snapshot() calls that return
MaxSqlWrites == 3       \* SpecSql: upsert_daily calls
MaxSubSamples == 2      \* SpecSubs: snapshot() calls that return
MaxNicSnapshots == 2    \* SpecAdapter: snapshot() calls
MaxNicBytes == 2        \* SpecAdapter: bytes an interface has sent
MaxFlushSamples == 21   \* SpecFlush: snapshot() calls that returned
MinExitSamples == 9      \* SpecExit: snapshot() calls that return before exit_app

----------------------------------------------------------------------------
(* Python builtins *)

max(a, b) == IF a >= b THEN a ELSE b

----------------------------------------------------------------------------
(* domain/entities/network_usage.py *)

SpeedSnapshot(up, down, sent_delta, recv_delta) ==
    [up_speed |-> up, down_speed |-> down,
     bytes_sent_delta |-> sent_delta, bytes_recv_delta |-> recv_delta]

DailyUsage(day, bytes_sent, bytes_recv, max_up, max_down, active) ==
    [day |-> day, bytes_sent |-> bytes_sent, bytes_recv |-> bytes_recv,
     max_up_speed |-> max_up, max_down_speed |-> max_down,
     active_seconds |-> active]

MonthlyUsage(y, m, bytes_sent, bytes_recv, max_up, max_down, active, days) ==
    [year |-> y, month |-> m, bytes_sent |-> bytes_sent,
     bytes_recv |-> bytes_recv, max_up_speed |-> max_up,
     max_down_speed |-> max_down, active_seconds |-> active,
     days_tracked |-> days]

----------------------------------------------------------------------------
(* infrastructure/system/network_provider.py *)

\* Variant: the baseline left at the zeros of __init__.
InitCountersZero(sent, recv) == [last_sent |-> 0, last_recv |-> 0]

\* __init__ and _init_counters: the baseline is the construction-time reading.
init_counters(sent, recv) == [last_sent |-> sent, last_recv |-> recv]

\* Variant: the deltas returned without max(., 0).
SnapshotUnclamped(n, sent, recv) ==
    LET sent_delta == sent - n.last_sent
        recv_delta == recv - n.last_recv
    IN  [net  |-> [last_sent |-> sent, last_recv |-> recv],
         snap |-> SpeedSnapshot(sent_delta, recv_delta, sent_delta, recv_delta)]

\* Variant: the baseline never moves down.
SnapshotKeepsBaselineOnReset(n, sent, recv) ==
    LET sent_delta == sent - n.last_sent
        recv_delta == recv - n.last_recv
    IN  [net  |-> [last_sent |-> max(sent, n.last_sent),
                   last_recv |-> max(recv, n.last_recv)],
         snap |-> SpeedSnapshot(max(sent_delta, 0), max(recv_delta, 0),
                                max(sent_delta, 0), max(recv_delta, 0))]

\* snapshot(): the clamped deltas, and the provider with its new baseline.
snapshot(n, sent, recv) ==
    LET sent_delta == sent - n.last_sent
        recv_delta == recv - n.last_recv
    IN  [net  |-> [last_sent |-> sent, last_recv |-> recv],
         snap |-> SpeedSnapshot(max(sent_delta, 0), max(recv_delta, 0),
                                max(sent_delta, 0), max(recv_delta, 0))]

----------------------------------------------------------------------------
(* infrastructure/database/sqlite_usage_repository.py *)

\* A day TEXT value is the sequence of its characters.
DigitChars == <<"0", "1", "2", "3", "4", "5", "6", "7", "8", "9">>

\* The value of a decimal digit.
digit(c) == (CHOOSE k \in 1..10 : DigitChars[k] = c) - 1

\* The code point of a character of a day TEXT: '-' sorts before the digits.
ord(c) == IF c = "-" THEN 45 ELSE 48 + digit(c)

\* str(v) for v >= 0: the decimal digits.
RECURSIVE str(_)
str(v) == IF v < 10 THEN <<DigitChars[v + 1]>>
          ELSE str(v \div 10) \o <<DigitChars[(v % 10) + 1]>>

\* The zero padding of the formats %04d and %02d: to at least w characters.
RECURSIVE zfill(_, _)
zfill(s, w) == IF Len(s) >= w THEN s ELSE zfill(<<"0">> \o s, w)

\* int(s) for a string of decimal digits.
RECURSIVE int(_)
int(s) == IF s = <<>> THEN 0
          ELSE int(SubSeq(s, 1, Len(s) - 1)) * 10 + digit(s[Len(s)])

\* datetime.date, held as its proleptic Gregorian ordinal (date.toordinal()).
is_leap(y) == y % 4 = 0 /\ (y % 100 # 0 \/ y % 400 = 0)

days_before_year(y) ==
    LET p == y - 1 IN p * 365 + p \div 4 - p \div 100 + p \div 400

days_in_month(y, m) ==
    IF m = 2 THEN (IF is_leap(y) THEN 29 ELSE 28)
    ELSE IF m \in {4, 6, 9, 11} THEN 30 ELSE 31

RECURSIVE days_before_month(_, _)
days_before_month(y, m) ==
    IF m <= 1 THEN 0 ELSE days_before_month(y, m - 1) + days_in_month(y, m - 1)

\* date(year, month, day)
date(y, m, d) == days_before_year(y) + days_before_month(y, m) + d

RECURSIVE year_from(_, _)
year_from(n, y) == IF n <= days_before_year(y + 1) THEN y ELSE year_from(n, y + 1)

RECURSIVE month_from(_, _, _)
month_from(n, y, m) ==
    IF n <= days_before_month(y, m) + days_in_month(y, m) THEN m
    ELSE month_from(n, y, m + 1)

\* d.year, d.month, d.day
year(n) == year_from(n, n \div 366 + 1)

month(n) == month_from(n - days_before_year(year(n)), year(n), 1)

day_of_month(n) ==
    n - days_before_year(year(n)) - days_before_month(year(n), month(n))

\* The dates the repository is called with in SpecStore: the two sides of a
\* month's end, a leap day, and the same month a year later.
StoreDays == {date(2024, 1, 31), date(2024, 2, 1), date(2024, 2, 29),
              date(2025, 2, 1)}

\* The months get_monthly is called with in SpecStore: those of StoreDays,
\* one with two digits and no row, and one that is not a month.
StoreMonths == {<<2024, 1>>, <<2024, 2>>, <<2025, 2>>, <<2024, 12>>, <<2024, 0>>}

\* The first and the last day of a month.
first_day(y, m) == date(y, m, 1)

last_day(y, m) == date(y, m, days_in_month(y, m))

\* Every date of the model: those of the wall clock, those of SpecStore, and
\* the ends of its months.
ModelDays ==
    Days \cup StoreDays
         \cup {first_day(ym[1], ym[2]) : ym \in {q \in StoreMonths : q[2] >= 1}}
         \cup {last_day(ym[1], ym[2]) : ym \in {q \in StoreMonths : q[2] >= 1}}

\* The format of date.isoformat(): %04d-%02d-%02d of year, month, day.
format_date(n) ==
    zfill(str(year(n)), 4) \o <<"-">> \o zfill(str(month(n)), 2) \o <<"-">>
        \o zfill(str(day_of_month(n)), 2)

\* The parse of date.fromisoformat(): the three fields of a YYYY-MM-DD text.
parse_date(s) ==
    date(int(SubSeq(s, 1, 4)), int(SubSeq(s, 6, 7)), int(SubSeq(s, 9, 10)))

\* format_date and parse_date, tabulated over the dates of the model and
\* over their texts.
IsoTexts == [n \in ModelDays |-> format_date(n)]

IsoDates == [s \in {IsoTexts[n] : n \in ModelDays} |-> parse_date(s)]

\* date.isoformat()
isoformat(n) == IsoTexts[n]

\* date.fromisoformat()
fromisoformat(s) == IsoDates[s]

\* Variant: the two byte columns read in each other's place.
RowToEntitySwapsBytes(row) ==
    DailyUsage(fromisoformat(row[1]), row[3], row[2], row[4], row[5], row[6])

\* _row_to_entity: a row is the tuple of its six columns.
row_to_entity(row) ==
    DailyUsage(fromisoformat(row[1]), row[2], row[3], row[4], row[5], row[6])

\* Variant: the peaks replaced on conflict, like the other columns.
UpsertReplacesPeaks(rows, usage) ==
    LET key == isoformat(usage.day)
    IN  {r \in rows : r[1] # key}
            \cup {<<key, usage.bytes_sent, usage.bytes_recv, usage.max_up_speed,
                     usage.max_down_speed, usage.active_seconds>>}

\* Variant: every column added to on conflict.
UpsertAdds(rows, usage) ==
    LET key == isoformat(usage.day)
    IN  IF \E r \in rows : r[1] = key
        THEN { IF r[1] = key
               THEN <<key, r[2] + usage.bytes_sent, r[3] + usage.bytes_recv,
                      max(r[4], usage.max_up_speed),
                      max(r[5], usage.max_down_speed),
                      r[6] + usage.active_seconds>>
               ELSE r : r \in rows }
        ELSE rows \cup {<<key, usage.bytes_sent, usage.bytes_recv,
                          usage.max_up_speed, usage.max_down_speed,
                          usage.active_seconds>>}

\* Variant: active_seconds added to on conflict.
UpsertAddsSeconds(rows, usage) ==
    LET key == isoformat(usage.day)
    IN  IF \E r \in rows : r[1] = key
        THEN { IF r[1] = key
               THEN <<key, usage.bytes_sent, usage.bytes_recv,
                      max(r[4], usage.max_up_speed),
                      max(r[5], usage.max_down_speed),
                      r[6] + usage.active_seconds>>
               ELSE r : r \in rows }
        ELSE rows \cup {<<key, usage.bytes_sent, usage.bytes_recv,
                          usage.max_up_speed, usage.max_down_speed,
                          usage.active_seconds>>}

\* Variant: a plain INSERT into a table whose day column is no key.
UpsertInsertsAgain(rows, usage) ==
    rows \cup {<<isoformat(usage.day), usage.bytes_sent, usage.bytes_recv,
                 usage.max_up_speed, usage.max_down_speed,
                 usage.active_seconds>>}

\* INSERT ... ON CONFLICT(day) DO UPDATE, then commit.
upsert_daily(rows, usage) ==
    LET key == isoformat(usage.day)
    IN  IF \E r \in rows : r[1] = key
        THEN { IF r[1] = key
               THEN <<key, usage.bytes_sent, usage.bytes_recv,
                      max(r[4], usage.max_up_speed),
                      max(r[5], usage.max_down_speed),
                      usage.active_seconds>>
               ELSE r : r \in rows }
        ELSE rows \cup {<<key, usage.bytes_sent, usage.bytes_recv,
                          usage.max_up_speed, usage.max_down_speed,
                          usage.active_seconds>>}

\* Python's None, as get_daily returns it when there is no row.
None == [none |-> TRUE]

\* SELECT * FROM daily_usage WHERE day = ?, fetchone.
get_daily(rows, day) ==
    LET key == isoformat(day)
    IN  IF \E r \in rows : r[1] = key
        THEN row_to_entity(CHOOSE r \in rows : r[1] = key)
        ELSE None

\* The order of two TEXT values under SQLite's BINARY collation: byte by
\* byte, a proper prefix first.
RECURSIVE text_le(_, _)
text_le(a, b) ==
    IF a = <<>> THEN TRUE
    ELSE IF b = <<>> THEN FALSE
    ELSE IF ord(Head(a)) # ord(Head(b)) THEN ord(Head(a)) < ord(Head(b))
    ELSE text_le(Tail(a), Tail(b))

\* x BETWEEN lo AND hi
between(x, lo, hi) == text_le(lo, x) /\ text_le(x, hi)

\* ORDER BY day
RECURSIVE order_by_day(_)
order_by_day(rows) ==
    IF rows = {} THEN <<>>
    ELSE LET first == CHOOSE r \in rows : \A q \in rows : text_le(r[1], q[1])
         IN  <<first>> \o order_by_day(rows \ {first})

\* Variant: the end of the range left out.
GetRangeHalfOpen(rows, start, end) ==
    LET lo == isoformat(start)
        hi == isoformat(end)
        fetched == order_by_day({r \in rows : text_le(lo, r[1]) /\ r[1] # hi
                                               /\ text_le(r[1], hi)})
    IN  [i \in 1..Len(fetched) |-> row_to_entity(fetched[i])]

\* SELECT * FROM daily_usage WHERE day BETWEEN ? AND ? ORDER BY day, fetchall.
get_range(rows, start, end) ==
    LET fetched == order_by_day({r \in rows :
                                    between(r[1], isoformat(start), isoformat(end))})
    IN  [i \in 1..Len(fetched) |-> row_to_entity(fetched[i])]

\* Variant: the month written without zero padding.
MonthPrefixUnpadded(y, m) == zfill(str(y), 4) \o <<"-">> \o str(m)

\* f"{year:04d}-{month:02d}"
month_prefix(y, m) == zfill(str(y), 4) \o <<"-">> \o zfill(str(m), 2)

\* day LIKE 'prefix%', for a prefix of digits and '-'.
like_prefix(s, prefix) ==
    Len(s) >= Len(prefix) /\ SubSeq(s, 1, Len(prefix)) = prefix

\* The for loop of get_monthly over the fetched rows.
RECURSIVE aggregate(_, _)
aggregate(mu, rows) ==
    IF rows = {} THEN mu
    ELSE LET r == CHOOSE q \in rows : TRUE
             d == row_to_entity(r)
         IN  aggregate([mu EXCEPT !.bytes_sent = @ + d.bytes_sent,
                                  !.bytes_recv = @ + d.bytes_recv,
                                  !.max_up_speed = max(@, d.max_up_speed),
                                  !.max_down_speed = max(@, d.max_down_speed),
                                  !.active_seconds = @ + d.active_seconds,
                                  !.days_tracked = @ + 1],
                       rows \ {r})

\* get_monthly: the rows whose day begins with the month's prefix, summed.
get_monthly(rows, y, m) ==
    aggregate(MonthlyUsage(y, m, 0, 0, 0, 0, 0, 0),
              {r \in rows : like_prefix(r[1], month_prefix(y, m))})

----------------------------------------------------------------------------
(* application/services/speed_monitor_service.py *)

FLUSH_INTERVAL == 10

\* Variant: __init__ without the load of today's row.
ServiceInitFromZero(rows, day) ==
    [running |-> FALSE, thread |-> "None", today |-> day, bytes_sent |-> 0,
     bytes_recv |-> 0, max_up |-> 0, max_down |-> 0, active_secs |-> 0,
     flush_counter |-> 0]

\* __init__ with date.today() = day: zero totals, or those of today's row.
service_init(rows, day) ==
    LET existing == get_daily(rows, day)
        zero == [running |-> FALSE, thread |-> "None", today |-> day,
                 bytes_sent |-> 0, bytes_recv |-> 0, max_up |-> 0,
                 max_down |-> 0, active_secs |-> 0, flush_counter |-> 0]
    IN  IF existing # None
        THEN [zero EXCEPT !.bytes_sent = existing.bytes_sent,
                          !.bytes_recv = existing.bytes_recv,
                          !.max_up = existing.max_up_speed,
                          !.max_down = existing.max_down_speed,
                          !.active_secs = existing.active_seconds]
        ELSE zero

today_usage(s) ==
    DailyUsage(s.today, s.bytes_sent, s.bytes_recv, s.max_up, s.max_down,
               s.active_secs)

\* Variant: _flush without its try/except.
FlushPropagates(ok) == ~ok

\* Whether an exception raised by upsert_daily leaves _flush: the except
\* clause takes every one.
flush_raises(ok) == FALSE

\* Variant: _flush passing what was accumulated since the stored row.
FlushSendsIncrement(s, rows, ok) ==
    LET stored == get_daily(rows, s.today)
        total == today_usage(s)
        usage == IF stored = None THEN total
                 ELSE [total EXCEPT !.bytes_sent = @ - stored.bytes_sent,
                                    !.bytes_recv = @ - stored.bytes_recv,
                                    !.active_seconds = @ - stored.active_seconds]
    IN  [svc    |-> s,
         rows   |-> IF ok THEN upsert_daily(rows, usage) ELSE rows,
         raised |-> flush_raises(ok),
         call   |-> [usage |-> usage, ok |-> ok, running |-> s.running,
                     left |-> today_usage(s)]]

\* _flush: one upsert_daily of today_usage; `ok` is whether the write succeeds.
\* The call records what was passed, the running flag at the time, and the
\* totals as they stand when _flush is left.
flush(s, rows, ok) ==
    [svc    |-> s,
     rows   |-> IF ok THEN upsert_daily(rows, today_usage(s)) ELSE rows,
     raised |-> flush_raises(ok),
     call   |-> [usage |-> today_usage(s), ok |-> ok, running |-> s.running,
                 left |-> today_usage(s)]]

\* Variant: the byte totals assigned, not added to.
FoldAssigns(s, sn) ==
    [s EXCEPT !.bytes_sent = sn.bytes_sent_delta,
              !.bytes_recv = sn.bytes_recv_delta,
              !.max_up = max(@, sn.up_speed),
              !.max_down = max(@, sn.down_speed),
              !.active_secs = @ + 1]

\* Variant: the peaks summed like the bytes.
FoldSumsPeaks(s, sn) ==
    [s EXCEPT !.bytes_sent = @ + sn.bytes_sent_delta,
              !.bytes_recv = @ + sn.bytes_recv_delta,
              !.max_up = @ + sn.up_speed,
              !.max_down = @ + sn.down_speed,
              !.active_secs = @ + 1]

\* The fold of one snapshot into the running totals.
fold(s, sn) ==
    [s EXCEPT !.bytes_sent = @ + sn.bytes_sent_delta,
              !.bytes_recv = @ + sn.bytes_recv_delta,
              !.max_up = max(@, sn.up_speed),
              !.max_down = max(@, sn.down_speed),
              !.active_secs = @ + 1]

\* Variant: the rollover branch with its reset left out.
RolloverKeepsTotals(s, today) == [s EXCEPT !.today = today]

\* Variant: the flush counter reset with the totals.
RolloverResetsCounter(s, today) ==
    [s EXCEPT !.today = today, !.bytes_sent = 0, !.bytes_recv = 0,
              !.max_up = 0, !.max_down = 0, !.active_secs = 0,
              !.flush_counter = 0]

\* The reset of the rollover branch.
rollover_reset(s, today) ==
    [s EXCEPT !.today = today, !.bytes_sent = 0, !.bytes_recv = 0,
              !.max_up = 0, !.max_down = 0, !.active_secs = 0]

\* Variant: the threshold test with > for >=.
FlushDueLate(counter) == counter > FLUSH_INTERVAL

\* The threshold test of the flush counter.
flush_due(counter) == counter >= FLUSH_INTERVAL

\* Variant: the snapshot folded before the rollover check.
AccumulateFoldsBeforeRollover(s, rows, sn, today, ok1, ok2) ==
    LET s0 == fold(s, sn)
        f1 == flush(s0, rows, ok1)
        s1 == IF today # s.today THEN rollover_reset(s0, today) ELSE s0
        r1 == IF today # s.today THEN f1.rows ELSE rows
        c1 == IF today # s.today THEN <<f1.call>> ELSE <<>>
        s2 == [s1 EXCEPT !.flush_counter = @ + 1]
        f2 == flush(s2, r1, ok2)
    IN  IF flush_due(s2.flush_counter)
        THEN [svc |-> [s2 EXCEPT !.flush_counter = 0], rows |-> f2.rows,
              calls |-> c1 \o <<f2.call>>, raised |-> FALSE, folded |-> TRUE]
        ELSE [svc |-> s2, rows |-> r1, calls |-> c1, raised |-> FALSE,
              folded |-> TRUE]

\* Variant: the flush counter reset only when the periodic write succeeded.
AccumulateRetriesFlush(s, rows, sn, today, ok1, ok2) ==
    LET roll == today # s.today
        f1 == flush(s, rows, ok1)
        s1 == IF roll THEN rollover_reset(f1.svc, today) ELSE s
        r1 == IF roll THEN f1.rows ELSE rows
        c1 == IF roll THEN <<f1.call>> ELSE <<>>
        s2 == [fold(s1, sn) EXCEPT !.flush_counter = @ + 1]
        f2 == flush(s2, r1, ok2)
    IN  IF flush_due(s2.flush_counter)
        THEN [svc |-> IF ok2 THEN [f2.svc EXCEPT !.flush_counter = 0] ELSE f2.svc,
              rows |-> f2.rows, calls |-> c1 \o <<f2.call>>, raised |-> FALSE,
              folded |-> TRUE]
        ELSE [svc |-> s2, rows |-> r1, calls |-> c1, raised |-> FALSE,
              folded |-> TRUE]

\* _accumulate(snap) with date.today() = today; ok1 and ok2 are the outcomes
\* of the rollover write and of the periodic write.  An exception that leaves
\* _flush ends _accumulate where it stands.
accumulate(s, rows, sn, today, ok1, ok2) ==
    LET roll == today # s.today
        f1 == flush(s, rows, ok1)
        s1 == IF roll THEN rollover_reset(f1.svc, today) ELSE s
        r1 == IF roll THEN f1.rows ELSE rows
        c1 == IF roll THEN <<f1.call>> ELSE <<>>
        s2 == [fold(s1, sn) EXCEPT !.flush_counter = @ + 1]
        f2 == flush(s2, r1, ok2)
    IN  IF roll /\ f1.raised
        THEN [svc |-> f1.svc, rows |-> f1.rows, calls |-> c1, raised |-> TRUE,
              folded |-> FALSE]
        ELSE IF flush_due(s2.flush_counter)
        THEN IF f2.raised
             THEN [svc |-> f2.svc, rows |-> f2.rows, calls |-> c1 \o <<f2.call>>,
                   raised |-> TRUE, folded |-> TRUE]
             ELSE [svc |-> [f2.svc EXCEPT !.flush_counter = 0], rows |-> f2.rows,
                   calls |-> c1 \o <<f2.call>>, raised |-> FALSE, folded |-> TRUE]
        ELSE [svc |-> s2, rows |-> r1, calls |-> c1, raised |-> FALSE,
              folded |-> TRUE]

\* Variant: the final flush made before the flag is cleared.
StopFlushesFirst(s, rows, ok) ==
    LET f == flush(s, rows, ok)
    IN  [svc |-> [f.svc EXCEPT !.running = FALSE], rows |-> f.rows,
         calls |-> <<f.call>>, raised |-> f.raised]

\* stop(): clear the flag, then the final flush.
stop(s, rows, ok) ==
    LET f == flush([s EXCEPT !.running = FALSE], rows, ok)
    IN  [svc |-> f.svc, rows |-> f.rows, calls |-> <<f.call>>, raised |-> f.raised]

\* What _net.snapshot() does in an iteration: it raises, or it returns from
\* the reading <<sent, recv>>.
ReadFails == [raises |-> TRUE]

Reading(sent, recv) == [raises |-> FALSE, sent |-> sent, recv |-> recv]

\* Variant: the while body without its try/except.
LoopWithoutExcept(s, n, rows, sn, reading, today, ok1, ok2, cb_ok) ==
    LET r == snapshot(n, reading.sent, reading.recv)
        a == accumulate(s, rows, r.snap, today, ok1, ok2)
    IN  IF reading.raises
        THEN [svc |-> [s EXCEPT !.thread = "dead"], net |-> n, snap |-> sn,
              rows |-> rows, calls |-> <<>>, raised |-> TRUE, folded |-> FALSE,
              returned |-> FALSE, delivered |-> None, callback |-> "not called"]
        ELSE [svc |-> IF a.raised \/ ~cb_ok THEN [a.svc EXCEPT !.thread = "dead"]
                      ELSE a.svc,
              net |-> r.net, snap |-> r.snap, rows |-> a.rows,
              calls |-> a.calls, raised |-> a.raised \/ ~cb_ok,
              folded |-> a.folded, returned |-> TRUE,
              delivered |-> IF a.raised THEN None ELSE r.snap,
              callback |-> IF a.raised THEN "not called"
                           ELSE IF cb_ok THEN "returned" ELSE "raised"]

\* Variant: on_speed_update called before _accumulate.
LoopCallbackFirst(s, n, rows, sn, reading, today, ok1, ok2, cb_ok) ==
    LET r == snapshot(n, reading.sent, reading.recv)
        a == accumulate(s, rows, r.snap, today, ok1, ok2)
    IN  IF reading.raises
        THEN [svc |-> s, net |-> n, snap |-> sn, rows |-> rows,
              calls |-> <<>>, raised |-> FALSE, folded |-> FALSE,
              returned |-> FALSE, delivered |-> None, callback |-> "not called"]
        ELSE IF ~cb_ok
        THEN [svc |-> s, net |-> r.net, snap |-> r.snap, rows |-> rows,
              calls |-> <<>>, raised |-> FALSE, folded |-> FALSE,
              returned |-> TRUE, delivered |-> r.snap, callback |-> "raised"]
        ELSE [svc |-> a.svc, net |-> r.net, snap |-> r.snap, rows |-> a.rows,
              calls |-> a.calls, raised |-> FALSE, folded |-> a.folded,
              returned |-> TRUE, delivered |-> r.snap, callback |-> "returned"]

\* The rest of the try block once snapshot() has returned r: _accumulate,
\* then on_speed_update(snap) unless _accumulate raised.
after_accumulate(r, a, cb_ok) ==
    [svc |-> a.svc, net |-> r.net, snap |-> r.snap, rows |-> a.rows,
     calls |-> a.calls, raised |-> FALSE, folded |-> a.folded,
     returned |-> TRUE,
     delivered |-> IF a.raised THEN None ELSE r.snap,
     callback |-> IF a.raised THEN "not called"
                  ELSE IF cb_ok THEN "returned" ELSE "raised"]

after_snapshot(s, rows, r, today, ok1, ok2, cb_ok) ==
    after_accumulate(r, accumulate(s, rows, r.snap, today, ok1, ok2), cb_ok)

\* One pass of the while body of _loop, of a service built with
\* on_speed_update: snapshot, _accumulate, on_speed_update(snap), and the
\* except clause that takes whatever any of them raises.  sn is the snapshot
\* of the pass before; cb_ok is whether on_speed_update returns.
loop_iteration(s, n, rows, sn, reading, today, ok1, ok2, cb_ok) ==
    IF reading.raises
    THEN [svc |-> s, net |-> n, snap |-> sn, rows |-> rows,
          calls |-> <<>>, raised |-> FALSE, folded |-> FALSE,
          returned |-> FALSE, delivered |-> None, callback |-> "not called"]
    ELSE after_snapshot(s, rows, snapshot(n, reading.sent, reading.recv),
                        today, ok1, ok2, cb_ok)

----------------------------------------------------------------------------
(* History kept beside the program *)

ZeroUsage(d) == DailyUsage(d, 0, 0, 0, 0, 0)

\* The five running totals of an accumulator, before any fold.
ZeroTotals ==
    [bytes_sent |-> 0, bytes_recv |-> 0, max_up |-> 0, max_down |-> 0,
     active_secs |-> 0]

\* The stored rows, as the repository returns them.
Stored == {row_to_entity(r) : r \in daily_usage}

\* owed after the invocations cs: a failed write records what it was handed.
RECURSIVE Owe(_, _)
Owe(o, cs) ==
    IF cs = <<>> THEN o
    ELSE LET c == Head(cs)
         IN  Owe(IF c.ok THEN o ELSE [o EXCEPT ![c.usage.day] = c.usage], Tail(cs))

\* No iteration has run: on_speed_update was not called.
InitLoopVars ==
    /\ delivered = None
    /\ callback = "not called"

\* No repository call has been made from outside the service.
InitRepoVars ==
    /\ arg = None
    /\ ret = None
    /\ rows_pre = {}
    /\ passed = [d \in StoreDays |-> <<0, 0>>]

\* No thread has been started and stop() has not been called.
InitConcVars ==
    /\ pc = "none"
    /\ loop_now = 1
    /\ loop_ctx = "none"
    /\ caller_pc = "idle"
    /\ usage_read = None
    /\ issued = <<>>
    /\ ctx = "main"
    /\ day_sum = [d \in Days |-> ZeroTotals]
    /\ stood = {today_usage(svc)}
    /\ stop_sum = day_sum

\* No thread is inside a call of the repository.
InitSqlVars ==
    /\ writer = [pc |-> "idle"]
    /\ reader = [pc |-> "idle"]
    /\ versions = {}

\* The callbacks the widgets and the statistics window pass to subscribe().
Handlers == {"taskbar", "floating", "statistics"}

\* main builds the service without on_speed_update, and no call of
\* subscribe() has been made.
InitSubVars ==
    /\ slot = "None"
    /\ subscribed = {}
    /\ inbox = [h \in Handlers |-> <<>>]
    /\ expected = [h \in Handlers |-> <<>>]
    /\ raised = "None"

\* The configuration is the default one, no interface is present and the
\* provider has read zero counters.
InitNicVars ==
    /\ monitored_adapter = "All"
    /\ pernic = [nic \in {} |-> <<0, 0>>]
    /\ bytes_read = [raises |-> FALSE, sent |-> 0, recv |-> 0]
    /\ target0 = "All"
    /\ pernic_read = pernic

----------------------------------------------------------------------------
(* SpecNet: the provider alone *)

InitNet ==
    /\ counters \in NetReadings
    /\ prev_counters = counters
    /\ net = init_counters(counters[1], counters[2])
    /\ snap = SpeedSnapshot(0, 0, 0, 0)
    /\ n_snap = 0
    /\ now = 1
    /\ daily_usage = {}
    /\ svc = service_init(daily_usage, now)
    /\ op = "init"
    /\ calls = <<>>
    /\ escaped = FALSE
    /\ pre = today_usage(svc)
    /\ n_upserts = 0
    /\ n_stops = 0
    /\ folded = [d \in Days |-> 0]
    /\ owed = [d \in Days |-> ZeroUsage(d)]
    /\ InitLoopVars
    /\ InitRepoVars
    /\ n_restarts = 0
    /\ InitConcVars
    /\ InitSqlVars
    /\ InitSubVars
    /\ InitNicVars

\* One call of snapshot() that reads <<sent, recv>>.
SnapshotCall(sent, recv) ==
    /\ n_snap < MaxSnapshots
    /\ LET r == snapshot(net, sent, recv)
       IN  /\ net' = r.net
           /\ snap' = r.snap
    /\ counters' = <<sent, recv>>
    /\ prev_counters' = counters
    /\ n_snap' = n_snap + 1
    /\ op' = "snapshot"
    /\ UNCHANGED <<now, svc, daily_usage, calls, escaped, pre, n_upserts,
                   n_stops, folded, owed>>
    /\ UNCHANGED <<loop_vars, repo_vars, n_restarts, conc_vars, sql_vars, sub_vars, nic_vars>>

NextNet == \E r \in NetReadings : SnapshotCall(r[1], r[2])

SpecNet == InitNet /\ [][NextNet]_vars

----------------------------------------------------------------------------
(* Spec: the service *)

Init ==
    /\ counters \in SvcReadings
    /\ prev_counters = counters
    /\ net = init_counters(counters[1], counters[2])
    /\ snap = SpeedSnapshot(0, 0, 0, 0)
    /\ n_snap = 0
    /\ now = 1
    /\ daily_usage = {}
    /\ svc = service_init(daily_usage, now)
    /\ op = "init"
    /\ calls = <<>>
    /\ escaped = FALSE
    /\ pre = today_usage(svc)
    /\ n_upserts = 0
    /\ n_stops = 0
    /\ folded = [d \in Days |-> 0]
    /\ owed = [d \in Days |-> ZeroUsage(d)]
    /\ InitLoopVars
    /\ InitRepoVars
    /\ n_restarts = 0
    /\ InitConcVars
    /\ InitSqlVars
    /\ InitSubVars
    /\ InitNicVars

\* start(): set the flag and start the loop thread, which runs while the flag
\* is set.  The widget calls it once, when it is built, and stop() when it
\* exits.
Start ==
    /\ svc.thread = "None"
    /\ n_stops = 0
    /\ svc' = [svc EXCEPT !.running = TRUE, !.thread = "started"]
    /\ op' = "start"
    /\ calls' = <<>>
    /\ escaped' = FALSE
    /\ pre' = today_usage(svc)
    /\ UNCHANGED <<counters, prev_counters, now, net, daily_usage, snap,
                   n_snap, n_upserts, n_stops, folded, owed>>
    /\ UNCHANGED <<loop_vars, repo_vars, n_restarts, conc_vars, sql_vars, sub_vars, nic_vars>>

\* One iteration of _loop whose snapshot() returns: snapshot, _accumulate.
LoopIteration(sent, recv, ok1, ok2) ==
    /\ svc.running
    /\ LET r == snapshot(net, sent, recv)
           a == accumulate(svc, daily_usage, r.snap, now, ok1, ok2)
       IN  /\ net' = r.net
           /\ snap' = r.snap
           /\ svc' = a.svc
           /\ daily_usage' = a.rows
           /\ calls' = a.calls
           /\ escaped' = a.raised
           /\ n_upserts' = n_upserts + Len(a.calls)
           /\ folded' = IF a.folded THEN [folded EXCEPT ![now] = @ + 1] ELSE folded
           /\ owed' = Owe(owed, a.calls)
    /\ counters' = <<sent, recv>>
    /\ prev_counters' = counters
    /\ n_snap' = n_snap + 1
    /\ op' = "sample"
    /\ pre' = today_usage(svc)
    /\ UNCHANGED <<now, n_stops>>
    /\ UNCHANGED <<loop_vars, repo_vars, n_restarts, conc_vars, sql_vars, sub_vars, nic_vars>>

Sample(sent, recv, ok1, ok2) ==
    /\ n_snap < MaxSamples
    /\ LoopIteration(sent, recv, ok1, ok2)

\* The calendar date advances.
Tick ==
    /\ now < MaxDay
    /\ now' = now + 1
    /\ op' = "tick"
    /\ calls' = <<>>
    /\ escaped' = FALSE
    /\ pre' = today_usage(svc)
    /\ UNCHANGED <<counters, prev_counters, net, svc, daily_usage, snap,
                   n_snap, n_upserts, n_stops, folded, owed>>
    /\ UNCHANGED <<loop_vars, repo_vars, n_restarts, conc_vars, sql_vars, sub_vars, nic_vars>>

\* stop(), whose write succeeds or not.
Stop(ok) ==
    /\ n_stops < MaxStops
    /\ LET r == stop(svc, daily_usage, ok)
       IN  /\ svc' = r.svc
           /\ daily_usage' = r.rows
           /\ calls' = r.calls
           /\ escaped' = r.raised
           /\ n_upserts' = n_upserts + Len(r.calls)
           /\ owed' = Owe(owed, r.calls)
    /\ n_stops' = n_stops + 1
    /\ op' = "stop"
    /\ pre' = today_usage(svc)
    /\ UNCHANGED <<counters, prev_counters, now, net, snap, n_snap, folded>>
    /\ UNCHANGED <<loop_vars, repo_vars, n_restarts, conc_vars, sql_vars, sub_vars, nic_vars>>

\* The outcomes of the writes an iteration attempts: a write that is not
\* attempted has none to choose.
RolloverOutcomes == IF now # svc.today THEN BOOLEAN ELSE {TRUE}

PeriodicOutcomes ==
    IF flush_due(svc.flush_counter + 1) THEN BOOLEAN ELSE {TRUE}

Next ==
    \/ Start
    \/ \E r \in SvcReadings : \E ok1 \in RolloverOutcomes, ok2 \in PeriodicOutcomes :
           Sample(r[1], r[2], ok1, ok2)
    \/ Tick
    \/ \E ok \in BOOLEAN : Stop(ok)

Spec == Init /\ [][Next]_vars

----------------------------------------------------------------------------
(* SpecSteady: the loop alone, with no change of date and no stop() *)

SteadySample(sent, recv, ok1, ok2) ==
    /\ n_snap < MaxSteadySamples
    /\ LoopIteration(sent, recv, ok1, ok2)

NextSteady ==
    \/ Start
    \/ \E r \in SvcReadings : \E ok1 \in RolloverOutcomes, ok2 \in PeriodicOutcomes :
           SteadySample(r[1], r[2], ok1, ok2)

SpecSteady == Init /\ [][NextSteady]_vars

----------------------------------------------------------------------------
(* SpecLoop: the loop of a service built with on_speed_update, whose         *)
(* snapshot() and callback may raise; the store takes every write           *)

\* One iteration of _loop.
LoopStep(reading, ok1, ok2, cb_ok) ==
    /\ svc.running
    /\ svc.thread = "started"
    /\ reading.raises \/ n_snap < MaxLoopSamples
    /\ \E r \in {loop_iteration(svc, net, daily_usage, snap, reading, now,
                                  ok1, ok2, cb_ok)} :
           /\ net' = r.net
           /\ snap' = r.snap
           /\ svc' = r.svc
           /\ daily_usage' = r.rows
           /\ calls' = r.calls
           /\ escaped' = r.raised
           /\ delivered' = r.delivered
           /\ callback' = r.callback
           /\ n_upserts' = n_upserts + Len(r.calls)
           /\ folded' = IF r.folded THEN [folded EXCEPT ![now] = @ + 1] ELSE folded
           /\ owed' = Owe(owed, r.calls)
           /\ op' = IF r.returned THEN "sample" ELSE "sample_failed"
    /\ counters' = IF reading.raises THEN counters ELSE <<reading.sent, reading.recv>>
    /\ prev_counters' = IF reading.raises THEN prev_counters ELSE counters
    /\ n_snap' = IF reading.raises THEN n_snap ELSE n_snap + 1
    /\ pre' = today_usage(svc)
    /\ UNCHANGED <<now, n_stops, repo_vars, n_restarts, conc_vars, sql_vars, sub_vars, nic_vars>>

LoopReadings == {ReadFails} \cup {Reading(r[1], r[2]) : r \in SvcReadings}

NextLoop ==
    \/ Start
    \/ \E reading \in LoopReadings :
           \E cb_ok \in BOOLEAN : LoopStep(reading, TRUE, TRUE, cb_ok)
    \/ Tick

SpecLoop == Init /\ [][NextLoop]_vars

----------------------------------------------------------------------------
(* SpecResume: the service over restarts of the process: main() builds a    *)
(* new provider and a new service on the table the last process left        *)

ResumeSample(sent, recv, ok1, ok2) ==
    /\ n_snap < MaxResumeSamples
    /\ LoopIteration(sent, recv, ok1, ok2)

\* The process ends, with or without stop(), and main() runs again: the
\* provider takes its baseline from the reading <<sent, recv>> and the
\* service loads today's row.
Restart(sent, recv) ==
    /\ n_restarts < MaxRestarts
    /\ counters' = <<sent, recv>>
    /\ prev_counters' = <<sent, recv>>
    /\ net' = init_counters(sent, recv)
    /\ snap' = SpeedSnapshot(0, 0, 0, 0)
    /\ svc' = service_init(daily_usage, now)
    /\ op' = "restart"
    /\ calls' = <<>>
    /\ escaped' = FALSE
    /\ pre' = today_usage(svc)
    /\ n_stops' = 0
    /\ n_restarts' = n_restarts + 1
    /\ UNCHANGED <<now, daily_usage, n_snap, n_upserts, folded, owed,
                   loop_vars, repo_vars, conc_vars, sql_vars, sub_vars, nic_vars>>

NextResume ==
    \/ Start
    \/ \E r \in SvcReadings : \E ok1 \in RolloverOutcomes, ok2 \in PeriodicOutcomes :
           ResumeSample(r[1], r[2], ok1, ok2)
    \/ Tick
    \/ \E ok \in BOOLEAN : Stop(ok)
    \/ \E r \in SvcReadings : Restart(r[1], r[2])

SpecResume == Init /\ [][NextResume]_vars

----------------------------------------------------------------------------
(* SpecStore: the repository alone, called as the service and the            *)
(* statistics window call it                                                *)

\* The records upsert_daily is called with: for each date of 2024 two totals
\* of which neither holds the other, and one for the date of 2025.
StoreUsages ==
    {DailyUsage(d, 5, 7, 3, 1, 2) : d \in StoreDays}
        \cup {DailyUsage(d, 2, 9, 1, 4, 1) : d \in {e \in StoreDays : year(e) = 2024}}

UpsertDaily(usage) ==
    /\ daily_usage' = upsert_daily(daily_usage, usage)
    /\ op' = "upsert_daily"
    /\ arg' = usage
    /\ ret' = None
    /\ rows_pre' = daily_usage
    /\ passed' = [passed EXCEPT ![usage.day] =
                      <<max(@[1], usage.max_up_speed),
                        max(@[2], usage.max_down_speed)>>]
    /\ UNCHANGED <<counters, prev_counters, now, net, svc, snap, calls,
                   escaped, pre, n_snap, n_upserts, n_stops, folded, owed,
                   loop_vars, n_restarts, conc_vars, sql_vars, sub_vars, nic_vars>>

GetDaily(day) ==
    /\ ret' = get_daily(daily_usage, day)
    /\ op' = "get_daily"
    /\ arg' = [day |-> day]
    /\ rows_pre' = daily_usage
    /\ UNCHANGED <<counters, prev_counters, now, net, svc, daily_usage, snap,
                   calls, escaped, pre, n_snap, n_upserts, n_stops, folded,
                   owed, loop_vars, passed, n_restarts, conc_vars, sql_vars, sub_vars, nic_vars>>

GetRange(start, end) ==
    /\ ret' = get_range(daily_usage, start, end)
    /\ op' = "get_range"
    /\ arg' = [start |-> start, end |-> end]
    /\ rows_pre' = daily_usage
    /\ UNCHANGED <<counters, prev_counters, now, net, svc, daily_usage, snap,
                   calls, escaped, pre, n_snap, n_upserts, n_stops, folded,
                   owed, loop_vars, passed, n_restarts, conc_vars, sql_vars, sub_vars, nic_vars>>

GetMonthly(y, m) ==
    /\ ret' = get_monthly(daily_usage, y, m)
    /\ op' = "get_monthly"
    /\ arg' = [year |-> y, month |-> m]
    /\ rows_pre' = daily_usage
    /\ UNCHANGED <<counters, prev_counters, now, net, svc, daily_usage, snap,
                   calls, escaped, pre, n_snap, n_upserts, n_stops, folded,
                   owed, loop_vars, passed, n_restarts, conc_vars, sql_vars, sub_vars, nic_vars>>

NextStore ==
    \/ \E usage \in StoreUsages : UpsertDaily(usage)
    \/ \E day \in StoreDays : GetDaily(day)
    \/ \E start \in StoreDays, end \in StoreDays : GetRange(start, end)
    \/ \E ym \in StoreMonths : GetMonthly(ym[1], ym[2])

\* The service of Init is built and never started.
InitStore == Init /\ counters = <<0, 0>>

SpecStore == InitStore /\ [][NextStore]_vars

----------------------------------------------------------------------------
(* SpecConc: the loop thread and the thread that calls stop(), statement by  *)
(* statement.  pc and caller_pc name the line of speed_monitor_service.py     *)
(* the thread executes next.                                                 *)

\* Variant: the target called in the caller, as Thread.run() does.
ThreadRunsInCaller(caller) == caller

\* threading.Thread(target=self._loop).start(): _loop runs in a new thread.
thread_start(caller) == "loop"

\* Variant: while True.
LoopForever(s) == TRUE

\* The test of the while statement.
loop_continues(s) == s.running

\* The attribute each statement of the rollover branch assigns.
ResetField ==
    [l \in {"92", "93", "94", "95", "96", "97"} |->
        CASE l = "92" -> "today"
          [] l = "93" -> "bytes_sent"
          [] l = "94" -> "bytes_recv"
          [] l = "95" -> "max_up"
          [] l = "96" -> "max_down"
          [] l = "97" -> "active_secs"]

\* The attribute each statement of the fold assigns.
FoldField ==
    [l \in {"99", "100", "101", "102", "103"} |->
        CASE l = "99" -> "bytes_sent"
          [] l = "100" -> "bytes_recv"
          [] l = "101" -> "max_up"
          [] l = "102" -> "max_down"
          [] l = "103" -> "active_secs"]

\* The field of DailyUsage each argument of today_usage fills, and the
\* attribute it reads.
ReadField ==
    [l \in {"66", "67", "68", "69", "70", "71"} |->
        CASE l = "66" -> <<"day", "today">>
          [] l = "67" -> <<"bytes_sent", "bytes_sent">>
          [] l = "68" -> <<"bytes_recv", "bytes_recv">>
          [] l = "69" -> <<"max_up_speed", "max_up">>
          [] l = "70" -> <<"max_down_speed", "max_down">>
          [] l = "71" -> <<"active_seconds", "active_secs">>]

\* The statement after each one, where no branch is taken.
NextLine ==
    [l \in {"92", "93", "94", "95", "96", "97", "99", "100", "101", "102",
            "103", "66", "67", "68", "69", "70", "71"} |->
        CASE l = "92" -> "93" [] l = "93" -> "94" [] l = "94" -> "95"
          [] l = "95" -> "96" [] l = "96" -> "97" [] l = "97" -> "99"
          [] l = "99" -> "100" [] l = "100" -> "101" [] l = "101" -> "102"
          [] l = "102" -> "103" [] l = "103" -> "105"
          [] l = "66" -> "67" [] l = "67" -> "68" [] l = "68" -> "69"
          [] l = "69" -> "70" [] l = "70" -> "71" [] l = "71" -> "112"]

\* The loop thread may still execute statements.
LoopAlive == pc \notin {"none", "exited"}

\* The record of one upsert_daily call: which flush made it, the execution
\* context that ran it, the statement the loop thread was at, what was passed.
Issue(kind, by, usage, ok) ==
    [kind |-> kind, by |-> by, at |-> pc, usage |-> usage, ok |-> ok]

\* The statements between which the totals are complete: those outside the
\* assignments of the rollover branch and of the fold.
Settled(l) == l \notin (DOMAIN ResetField \cup DOMAIN FoldField)

\* History: the totals are recorded wherever the loop thread stands between
\* two such statements.
Stand ==
    stood' = IF Settled(pc') THEN stood \cup {today_usage(svc')} ELSE stood

\* A step that calls no upsert_daily.
NoFlush ==
    /\ calls' = <<>>
    /\ escaped' = FALSE
    /\ pre' = today_usage(svc)
    /\ UNCHANGED <<n_upserts, owed, issued>>

\* A step in which `by` runs _flush as the flush `kind`, with the result f.
Flushed(kind, by, f) ==
    /\ daily_usage' = f.rows
    /\ calls' = <<f.call>>
    /\ escaped' = f.raised
    /\ pre' = today_usage(svc)
    /\ n_upserts' = n_upserts + 1
    /\ owed' = Owe(owed, <<f.call>>)
    /\ issued' = Append(issued, Issue(kind, by, f.call.usage, f.call.ok))

\* start(), called once by the widget: the flag is set and the thread started.
StartThread ==
    /\ pc = "none"
    /\ caller_pc = "idle"
    /\ svc' = [svc EXCEPT !.running = TRUE, !.thread = "started"]
    /\ pc' = "77"
    /\ loop_ctx' = thread_start("main")
    /\ ctx' = "main"
    /\ op' = "start"
    /\ NoFlush
    /\ UNCHANGED <<counters, prev_counters, now, net, daily_usage, snap,
                   n_snap, n_stops, folded, loop_vars, repo_vars, n_restarts, sql_vars, sub_vars, nic_vars, day_sum, stop_sum,
                   loop_now, caller_pc, usage_read>>
    /\ Stand

\* while self._running
LoopWhile ==
    /\ pc = "77"
    /\ pc' = IF loop_continues(svc) THEN "79" ELSE "exited"
    /\ ctx' = loop_ctx
    /\ op' = "while"
    /\ NoFlush
    /\ UNCHANGED <<counters, prev_counters, now, net, svc, daily_usage, snap,
                   n_snap, n_stops, folded, loop_vars, repo_vars, n_restarts, sql_vars, sub_vars, nic_vars, day_sum, stop_sum,
                   loop_now, loop_ctx, caller_pc, usage_read>>
    /\ Stand

\* snap = self._net.snapshot(), which returns or raises.
LoopSnapshot(reading) ==
    /\ pc = "79"
    /\ reading.raises \/ n_snap < MaxConcSamples
    /\ IF reading.raises
       THEN /\ pc' = "85"
            /\ op' = "snapshot_failed"
            /\ UNCHANGED <<counters, prev_counters, net, snap, n_snap>>
       ELSE /\ \E r \in {snapshot(net, reading.sent, reading.recv)} :
                   net' = r.net /\ snap' = r.snap
            /\ counters' = <<reading.sent, reading.recv>>
            /\ prev_counters' = counters
            /\ n_snap' = n_snap + 1
            /\ pc' = "88"
            /\ op' = "snapshot"
    /\ ctx' = loop_ctx
    /\ NoFlush
    /\ UNCHANGED <<now, svc, daily_usage, n_stops, folded, loop_vars,
                   repo_vars, n_restarts, sql_vars, sub_vars, nic_vars, day_sum, stop_sum, loop_now, loop_ctx, caller_pc,
                   usage_read>>
    /\ Stand

\* now = date.today(); if now != self._today
LoopToday ==
    /\ pc = "88"
    /\ loop_now' = now
    /\ pc' = IF now # svc.today THEN "91" ELSE "99"
    /\ ctx' = loop_ctx
    /\ op' = "today"
    /\ NoFlush
    /\ UNCHANGED <<counters, prev_counters, now, net, svc, daily_usage, snap,
                   n_snap, n_stops, folded, loop_vars, repo_vars, n_restarts, sql_vars, sub_vars, nic_vars, day_sum, stop_sum,
                   loop_ctx, caller_pc, usage_read>>
    /\ Stand

\* self._flush() of the rollover branch
LoopRolloverFlush(ok) ==
    /\ pc = "91"
    /\ \E f \in {flush(svc, daily_usage, ok)} :
           /\ Flushed("rollover", loop_ctx, f)
           /\ svc' = f.svc
           /\ pc' = IF f.raised THEN "85" ELSE "92"
    /\ ctx' = loop_ctx
    /\ op' = "rollover_flush"
    /\ UNCHANGED <<counters, prev_counters, now, net, snap, n_snap, n_stops,
                   folded, loop_vars, repo_vars, n_restarts, sql_vars, sub_vars, nic_vars, day_sum, stop_sum, loop_now,
                   loop_ctx, caller_pc, usage_read>>
    /\ Stand

\* One assignment of the rollover branch.
LoopReset ==
    /\ pc \in DOMAIN ResetField
    /\ svc' = [svc EXCEPT ![ResetField[pc]] =
                              rollover_reset(svc, loop_now)[ResetField[pc]]]
    /\ pc' = NextLine[pc]
    /\ ctx' = loop_ctx
    /\ op' = "reset"
    /\ NoFlush
    /\ UNCHANGED <<counters, prev_counters, now, net, daily_usage, snap,
                   n_snap, n_stops, folded, loop_vars, repo_vars, n_restarts, sql_vars, sub_vars, nic_vars, day_sum, stop_sum,
                   loop_now, loop_ctx, caller_pc, usage_read>>
    /\ Stand

\* One assignment of the fold.
LoopFold ==
    /\ pc \in DOMAIN FoldField
    /\ svc' = [svc EXCEPT ![FoldField[pc]] = fold(svc, snap)[FoldField[pc]]]
    /\ pc' = NextLine[pc]
    /\ folded' = IF pc = "103" THEN [folded EXCEPT ![loop_now] = @ + 1]
                 ELSE folded
    /\ day_sum' = [day_sum EXCEPT ![svc.today] =
                       [@ EXCEPT ![FoldField[pc]] =
                            fold(day_sum[svc.today], snap)[FoldField[pc]]]]
    /\ ctx' = loop_ctx
    /\ op' = "fold"
    /\ NoFlush
    /\ UNCHANGED <<counters, prev_counters, now, net, daily_usage, snap,
                   n_snap, n_stops, loop_vars, repo_vars, n_restarts, sql_vars, sub_vars, nic_vars, stop_sum,
                   loop_now, loop_ctx, caller_pc, usage_read>>
    /\ Stand

\* self._flush_counter += 1; if self._flush_counter >= _FLUSH_INTERVAL
LoopCount ==
    /\ pc = "105"
    /\ svc' = [svc EXCEPT !.flush_counter = @ + 1]
    /\ pc' = IF flush_due(svc.flush_counter + 1) THEN "107" ELSE "81"
    /\ ctx' = loop_ctx
    /\ op' = "count"
    /\ NoFlush
    /\ UNCHANGED <<counters, prev_counters, now, net, daily_usage, snap,
                   n_snap, n_stops, folded, loop_vars, repo_vars, n_restarts, sql_vars, sub_vars, nic_vars, day_sum, stop_sum,
                   loop_now, loop_ctx, caller_pc, usage_read>>
    /\ Stand

\* self._flush(); self._flush_counter = 0
LoopPeriodicFlush(ok) ==
    /\ pc = "107"
    /\ \E f \in {flush(svc, daily_usage, ok)} :
           /\ Flushed("periodic", loop_ctx, f)
           /\ svc' = IF f.raised THEN f.svc
                     ELSE [f.svc EXCEPT !.flush_counter = 0]
           /\ pc' = IF f.raised THEN "85" ELSE "81"
    /\ ctx' = loop_ctx
    /\ op' = "periodic_flush"
    /\ UNCHANGED <<counters, prev_counters, now, net, snap, n_snap, n_stops,
                   folded, loop_vars, repo_vars, n_restarts, sql_vars, sub_vars, nic_vars, day_sum, stop_sum, loop_now,
                   loop_ctx, caller_pc, usage_read>>
    /\ Stand

\* if self._on_speed_update: self._on_speed_update(snap)
LoopCallback(cb_ok) ==
    /\ pc = "81"
    /\ delivered' = snap
    /\ callback' = IF cb_ok THEN "returned" ELSE "raised"
    /\ pc' = "85"
    /\ ctx' = loop_ctx
    /\ op' = "callback"
    /\ NoFlush
    /\ UNCHANGED <<counters, prev_counters, now, net, svc, daily_usage, snap,
                   n_snap, n_stops, folded, repo_vars, n_restarts, sql_vars, sub_vars, nic_vars, day_sum, stop_sum, loop_now,
                   loop_ctx, caller_pc, usage_read>>
    /\ Stand

\* time.sleep(1)
LoopSleep ==
    /\ pc = "85"
    /\ pc' = "77"
    /\ ctx' = loop_ctx
    /\ op' = "sleep"
    /\ NoFlush
    /\ UNCHANGED <<counters, prev_counters, now, net, svc, daily_usage, snap,
                   n_snap, n_stops, folded, loop_vars, repo_vars, n_restarts, sql_vars, sub_vars, nic_vars, day_sum, stop_sum,
                   loop_now, loop_ctx, caller_pc, usage_read>>
    /\ Stand

\* What snapshot() meets in an iteration: a failing read, or counters that
\* have grown by one byte sent and two received.
ConcReadings == {ReadFails, Reading(counters[1] + 1, counters[2] + 2)}

\* The statements of the loop thread.
LoopThread ==
    \/ LoopWhile
    \/ \E reading \in ConcReadings : LoopSnapshot(reading)
    \/ LoopToday
    \/ LoopRolloverFlush(TRUE)
    \/ LoopReset
    \/ LoopFold
    \/ LoopCount
    \/ LoopPeriodicFlush(TRUE)
    \/ LoopCallback(TRUE)
    \/ LoopSleep

\* stop(), called from the widget's thread: self._running = False
StopClear ==
    /\ caller_pc = "idle"
    /\ pc # "none"
    /\ svc' = [svc EXCEPT !.running = FALSE]
    /\ caller_pc' = "66"
    /\ usage_read' = ZeroUsage(0)
    /\ n_stops' = n_stops + 1
    /\ stop_sum' = day_sum
    /\ ctx' = "main"
    /\ op' = "stop_clear"
    /\ NoFlush
    /\ UNCHANGED <<counters, prev_counters, now, net, daily_usage, snap,
                   n_snap, folded, loop_vars, repo_vars, n_restarts, sql_vars, sub_vars, nic_vars, day_sum, pc,
                   loop_now, loop_ctx>>
    /\ Stand

\* One argument of the DailyUsage that today_usage builds for stop()'s _flush.
StopRead ==
    /\ caller_pc \in DOMAIN ReadField
    /\ usage_read' = [usage_read EXCEPT ![ReadField[caller_pc][1]] =
                                            svc[ReadField[caller_pc][2]]]
    /\ caller_pc' = NextLine[caller_pc]
    /\ ctx' = "main"
    /\ op' = "stop_read"
    /\ NoFlush
    /\ UNCHANGED <<counters, prev_counters, now, net, svc, daily_usage, snap,
                   n_snap, n_stops, folded, loop_vars, repo_vars, n_restarts, sql_vars, sub_vars, nic_vars, day_sum, stop_sum,
                   pc, loop_now, loop_ctx>>
    /\ Stand

\* self._repo.upsert_daily(...) of stop()'s _flush, inside its try/except.
StopUpsert(ok) ==
    /\ caller_pc = "112"
    /\ Flushed("stop", "main",
               [rows   |-> IF ok THEN upsert_daily(daily_usage, usage_read)
                           ELSE daily_usage,
                raised |-> flush_raises(ok),
                call   |-> [usage |-> usage_read, ok |-> ok,
                            running |-> svc.running,
                            left |-> today_usage(svc)]])
    /\ caller_pc' = "returned"
    /\ ctx' = "main"
    /\ op' = "stop_flush"
    /\ UNCHANGED <<counters, prev_counters, now, net, svc, snap, n_snap,
                   n_stops, folded, loop_vars, repo_vars, n_restarts, sql_vars, sub_vars, nic_vars, day_sum, stop_sum, pc,
                   loop_now, loop_ctx, usage_read>>
    /\ Stand

\* The statements of the thread that calls stop().
CallerThread ==
    \/ StopClear
    \/ StopRead
    \/ \E ok \in BOOLEAN : StopUpsert(ok)

\* The date changes.  The program reads the clock in one place, line 88, so
\* a change at any moment of an iteration shows as one made before the
\* thread was started or during the sleep before the iteration.
Midnight ==
    /\ pc \in {"none", "85"}
    /\ Tick

NextConc ==
    \/ StartThread
    \/ LoopThread
    \/ CallerThread
    \/ Midnight

\* The service of Init, with counters that start at zero.
InitConc == Init /\ counters = <<0, 0>>

SpecConc == InitConc /\ [][NextConc]_vars

\* The loop thread is scheduled again and again, and each of its statements
\* returns: snapshot(), upsert_daily, the callback and time.sleep(1).
SpecConcFair == SpecConc /\ WF_vars(LoopThread)

----------------------------------------------------------------------------
(* SpecExit: the two threads, and the second stop() the exit of the        *)
(* application makes: exit_app calls stop() and sys.exit(0), and the        *)
(* atexit hook _cleanup calls stop() again                                  *)

\* stop(), called by _cleanup after exit_app has called it:
\* self._running = False
StopAgain ==
    /\ caller_pc = "returned"
    /\ n_stops = 1
    /\ svc' = [svc EXCEPT !.running = FALSE]
    /\ caller_pc' = "66"
    /\ usage_read' = ZeroUsage(0)
    /\ n_stops' = n_stops + 1
    /\ ctx' = "main"
    /\ op' = "stop_clear"
    /\ NoFlush
    /\ UNCHANGED <<counters, prev_counters, now, net, daily_usage, snap,
                   n_snap, folded, loop_vars, repo_vars, n_restarts, sql_vars,
                   sub_vars, nic_vars, day_sum, stop_sum, pc, loop_now,
                   loop_ctx>>
    /\ Stand

\* stop(), called by exit_app: the user leaves the application once the
\* loop has taken MinExitSamples snapshots.
ExitStop ==
    /\ n_snap >= MinExitSamples
    /\ StopClear

NextExit ==
    \/ StartThread
    \/ LoopThread
    \/ ExitStop
    \/ StopRead
    \/ \E ok \in BOOLEAN : StopUpsert(ok)
    \/ StopAgain
    \/ Midnight

SpecExit == InitConc /\ [][NextExit]_vars

----------------------------------------------------------------------------
(* SpecFlush: the loop over two periods of the flush counter, with changes  *)
(* of date, failing snapshots and failing writes                            *)

\* The upsert_daily calls cs of one iteration, as history: the call of the
\* rollover branch, if it was taken, comes first, the call of the threshold
\* test is the other.
FlushKinds(cs, roll) ==
    [i \in 1..Len(cs) |->
        Issue(IF roll /\ i = 1 THEN "rollover" ELSE "periodic", "loop",
              cs[i].usage, cs[i].ok)]

\* One iteration of _loop.
FlushStep(reading, ok1, ok2) ==
    /\ svc.running
    /\ svc.thread = "started"
    /\ reading.raises \/ n_snap < MaxFlushSamples
    /\ \E r \in {loop_iteration(svc, net, daily_usage, snap, reading, now,
                                  ok1, ok2, TRUE)} :
           /\ net' = r.net
           /\ snap' = r.snap
           /\ svc' = r.svc
           /\ daily_usage' = r.rows
           /\ calls' = r.calls
           /\ escaped' = r.raised
           /\ delivered' = r.delivered
           /\ callback' = r.callback
           /\ n_upserts' = n_upserts + Len(r.calls)
           /\ folded' = IF r.folded THEN [folded EXCEPT ![now] = @ + 1] ELSE folded
           /\ owed' = Owe(owed, r.calls)
           /\ issued' = issued \o FlushKinds(r.calls, now # svc.today)
           /\ op' = IF r.returned THEN "sample" ELSE "sample_failed"
    /\ counters' = IF reading.raises THEN counters ELSE <<reading.sent, reading.recv>>
    /\ prev_counters' = IF reading.raises THEN prev_counters ELSE counters
    /\ n_snap' = IF reading.raises THEN n_snap ELSE n_snap + 1
    /\ pre' = today_usage(svc)
    /\ UNCHANGED <<now, n_stops, repo_vars, n_restarts, sql_vars, sub_vars,
                   nic_vars, pc, loop_now, loop_ctx, caller_pc, usage_read,
                   ctx, day_sum, stood, stop_sum>>

NextFlush ==
    \/ Start
    \/ \E reading \in ConcReadings :
           \E ok1 \in RolloverOutcomes, ok2 \in PeriodicOutcomes :
               FlushStep(reading, ok1, ok2)
    \/ Tick

SpecFlush == InitStore /\ [][NextFlush]_vars

----------------------------------------------------------------------------
(* SpecSql: one thread inside upsert_daily and one inside a query, on the    *)
(* connection they share (check_same_thread=False), one SQLite statement     *)
(* step at a time.  A statement changes a row in one step; a SELECT returns  *)
(* its rows one step each, and what it sees of a change made on the same     *)
(* connection after it began is undefined.                                   *)

\* Variant: the bytes and the seconds written by one statement, the peaks by
\* a second one.
UpsertInTwoStatements == <<{2, 3, 6}, {4, 5}>>

\* The statements upsert_daily executes, each as the columns it writes: one
\* INSERT ... ON CONFLICT DO UPDATE of all five.
upsert_statements == <<{2, 3, 4, 5, 6}>>

\* The table after a statement of upsert_daily(usage) that writes the columns
\* cols: those columns as the whole upsert leaves them, the others as they
\* were (their DEFAULT 0 in a new row).
execute(rows, usage, cols) ==
    LET key == isoformat(usage.day)
        full == CHOOSE r \in upsert_daily(rows, usage) : r[1] = key
        old == IF \E r \in rows : r[1] = key
               THEN CHOOSE r \in rows : r[1] = key
               ELSE <<key, 0, 0, 0, 0, 0>>
    IN  {r \in rows : r[1] # key}
            \cup {[i \in 1..6 |-> IF i = 1 \/ i \in cols THEN full[i] ELSE old[i]]}

\* The dates and the records of this specification: two days of one month.
SqlDays == {date(2024, 2, 1), date(2024, 2, 29)}

SqlUsages == {u \in StoreUsages : u.day \in SqlDays}

\* The queries the statistics window makes.
SqlQueries ==
    {[kind |-> "get_daily", day |-> d] : d \in SqlDays}
        \cup {[kind |-> "get_range", start |-> date(2024, 2, 1),
               end |-> date(2024, 2, 29)],
              [kind |-> "get_monthly", year |-> 2024, month |-> 2]}

\* The rows of the table a query's WHERE clause selects.
selected(q, rows) ==
    CASE q.kind = "get_daily" -> {r \in rows : r[1] = isoformat(q.day)}
      [] q.kind = "get_range" ->
             {r \in rows : between(r[1], isoformat(q.start), isoformat(q.end))}
      [] q.kind = "get_monthly" ->
             {r \in rows : like_prefix(r[1], month_prefix(q.year, q.month))}

\* What the query returns from the rows its cursor fetched.
returned(q, fetched) ==
    CASE q.kind = "get_daily" -> get_daily(fetched, q.day)
      [] q.kind = "get_range" -> get_range(fetched, q.start, q.end)
      [] q.kind = "get_monthly" -> get_monthly(fetched, q.year, q.month)

\* upsert_daily(usage) is called.
WriteCall(usage) ==
    /\ writer.pc = "idle"
    /\ n_upserts < MaxSqlWrites
    /\ writer' = [pc |-> "execute", usage |-> usage, todo |-> upsert_statements]
    /\ n_upserts' = n_upserts + 1
    /\ op' = "upsert_call"
    /\ UNCHANGED <<counters, prev_counters, now, net, svc, daily_usage, snap,
                   calls, escaped, pre, n_snap, n_stops, folded, owed,
                   loop_vars, repo_vars, n_restarts, conc_vars, sub_vars, nic_vars, reader,
                   versions>>

\* self._conn.execute(...): the next statement of upsert_daily.
WriteExecute ==
    /\ writer.pc = "execute"
    /\ daily_usage' = execute(daily_usage, writer.usage, Head(writer.todo))
    /\ writer' = [writer EXCEPT !.todo = Tail(@),
                                !.pc = IF Tail(writer.todo) = <<>>
                                       THEN "commit" ELSE "execute"]
    /\ versions' = IF Tail(writer.todo) = <<>>
                   THEN versions \cup daily_usage' ELSE versions
    /\ op' = "upsert_execute"
    /\ UNCHANGED <<counters, prev_counters, now, net, svc, snap, calls,
                   escaped, pre, n_snap, n_upserts, n_stops, folded, owed,
                   loop_vars, repo_vars, n_restarts, conc_vars, sub_vars, nic_vars, reader>>

\* self._conn.commit(), and upsert_daily returns.
WriteCommit ==
    /\ writer.pc = "commit"
    /\ writer' = [pc |-> "idle"]
    /\ op' = "upsert_commit"
    /\ UNCHANGED <<counters, prev_counters, now, net, svc, daily_usage, snap,
                   calls, escaped, pre, n_snap, n_upserts, n_stops, folded,
                   owed, loop_vars, repo_vars, n_restarts, conc_vars, sub_vars, nic_vars, reader,
                   versions>>

\* A query is called: its SELECT begins.
ReadCall(q) ==
    /\ reader.pc = "idle"
    /\ reader' = [pc |-> "fetch", query |-> q,
                  first |-> {r[1] : r \in selected(q, daily_usage)},
                  visited |-> {}, fetched |-> {}]
    /\ versions' = daily_usage
    /\ arg' = q
    /\ rows_pre' = daily_usage
    /\ op' = "query_call"
    /\ UNCHANGED <<counters, prev_counters, now, net, svc, daily_usage, snap,
                   calls, escaped, pre, n_snap, n_upserts, n_stops, folded,
                   owed, loop_vars, ret, passed, n_restarts, conc_vars, sub_vars, nic_vars, writer>>

\* The cursor returns one more row: a selected row it has not yet returned,
\* as the table holds it now.
ReadFetch ==
    /\ reader.pc = "fetch"
    /\ \E r \in selected(reader.query, daily_usage) :
           /\ r[1] \notin reader.visited
           /\ reader' = [reader EXCEPT !.visited = @ \cup {r[1]},
                                       !.fetched = @ \cup {r}]
    /\ op' = "query_fetch"
    /\ UNCHANGED <<counters, prev_counters, now, net, svc, daily_usage, snap,
                   calls, escaped, pre, n_snap, n_upserts, n_stops, folded,
                   owed, loop_vars, repo_vars, n_restarts, conc_vars, sub_vars, nic_vars, writer,
                   versions>>

\* The cursor is exhausted and the query returns.  The rows selected when the
\* SELECT began have been returned; whether a row inserted since then is
\* returned is undefined.
ReadReturn ==
    /\ reader.pc = "fetch"
    /\ reader.first \subseteq reader.visited
    /\ ret' = returned(reader.query, reader.fetched)
    /\ reader' = [reader EXCEPT !.pc = "idle"]
    /\ op' = "query_return"
    /\ UNCHANGED <<counters, prev_counters, now, net, svc, daily_usage, snap,
                   calls, escaped, pre, n_snap, n_upserts, n_stops, folded,
                   owed, loop_vars, arg, rows_pre, passed, n_restarts,
                   conc_vars, sub_vars, nic_vars, writer, versions>>

NextSql ==
    \/ \E usage \in SqlUsages : WriteCall(usage)
    \/ WriteExecute
    \/ WriteCommit
    \/ \E q \in SqlQueries : ReadCall(q)
    \/ ReadFetch
    \/ ReadReturn

SpecSql == InitStore /\ [][NextSql]_vars

----------------------------------------------------------------------------
(* SpecQuery: the queries of the repository, on a store whose reads can fail *)

\* Variant: a failed read answered as if no row had been selected.
QueryReturnsEmpty(q, rows, ok) ==
    [raised |-> FALSE,
     value |-> returned(q, IF ok THEN selected(q, rows) ELSE {})]

\* get_daily, get_range or get_monthly as one call; ok is whether SQLite
\* reads the table.  The methods have no try/except: what execute or the
\* fetch raises leaves the method, and nothing is returned.
query(q, rows, ok) ==
    IF ok
    THEN [raised |-> FALSE, value |-> returned(q, selected(q, rows))]
    ELSE [raised |-> TRUE, error |-> "sqlite3.Error"]

Query(q, ok) ==
    /\ ret' = query(q, daily_usage, ok)
    /\ arg' = [query |-> q, ok |-> ok]
    /\ rows_pre' = daily_usage
    /\ raised' = IF ret'.raised THEN ret'.error ELSE "None"
    /\ op' = "query"
    /\ UNCHANGED <<counters, prev_counters, now, net, svc, daily_usage, snap,
                   calls, escaped, pre, n_snap, n_upserts, n_stops, folded,
                   owed, loop_vars, passed, n_restarts, conc_vars, sql_vars,
                   nic_vars, slot, subscribed, inbox, expected>>

NextQuery ==
    \/ \E usage \in SqlUsages : UpsertDaily(usage)
    \/ \E q \in SqlQueries : \E ok \in BOOLEAN : Query(q, ok)

SpecQuery == InitStore /\ [][NextQuery]_vars

----------------------------------------------------------------------------
(* SpecSubs: the service as the widgets and the statistics window use it:    *)
(* they call subscribe() and unsubscribe() on it                             *)

\* The methods and properties class SpeedMonitorService defines.
ServiceAttributes ==
    {"__init__", "start", "stop", "today_usage", "_loop", "_accumulate",
     "_flush"}

\* What service.<name>(...) raises before any code of the method runs:
\* AttributeError when the class has no such attribute.
lookup(name) == IF name \in ServiceAttributes THEN "None" ELSE "AttributeError"

\* The handlers the loop calls: the one passed to __init__, if any.
registered(s) == IF s = "None" THEN {} ELSE {s}

\* if self._on_speed_update: self._on_speed_update(snap), applied to the
\* result r of the rest of the iteration.
notify(s, r) ==
    IF s = "None"
    THEN [r EXCEPT !.delivered = None, !.callback = "not called"]
    ELSE r

\* Each handler's list with the snapshot number n added for the handlers hs.
Noted(lists, hs, n) ==
    [h \in Handlers |-> IF h \in hs THEN Append(lists[h], n) ELSE lists[h]]

\* SpeedMonitorService(network, repo, on_speed_update=h), in place of the
\* construction without a handler.
Construct(h) ==
    /\ op = "init"
    /\ slot = "None"
    /\ slot' = h
    /\ op' = "construct"
    /\ UNCHANGED <<counters, prev_counters, now, net, svc, daily_usage, snap,
                   calls, escaped, pre, n_snap, n_upserts, n_stops, folded,
                   owed, loop_vars, repo_vars, n_restarts, conc_vars, sql_vars, nic_vars,
                   subscribed, inbox, expected, raised>>

\* service.subscribe(h), as taskbar_widget.py:81, floating_widget.py:53 and
\* statistics_window.py:86 call it.
Subscribe(h) ==
    /\ h \notin subscribed
    /\ raised' = lookup("subscribe")
    /\ subscribed' = subscribed \cup {h}
    /\ op' = "subscribe"
    /\ UNCHANGED <<counters, prev_counters, now, net, svc, daily_usage, snap,
                   calls, escaped, pre, n_snap, n_upserts, n_stops, folded,
                   owed, loop_vars, repo_vars, n_restarts, conc_vars, sql_vars, nic_vars,
                   slot, inbox, expected>>

\* service.unsubscribe(h), as floating_widget.py:240 and
\* statistics_window.py:110 call it.
Unsubscribe(h) ==
    /\ h \in subscribed
    /\ raised' = lookup("unsubscribe")
    /\ subscribed' = subscribed \ {h}
    /\ op' = "unsubscribe"
    /\ UNCHANGED <<counters, prev_counters, now, net, svc, daily_usage, snap,
                   calls, escaped, pre, n_snap, n_upserts, n_stops, folded,
                   owed, loop_vars, repo_vars, n_restarts, conc_vars, sql_vars, nic_vars,
                   slot, inbox, expected>>

\* One iteration of _loop; cb_ok is whether the handler, if one is called,
\* returns.
SubSample(reading, cb_ok) ==
    /\ svc.running
    /\ reading.raises \/ n_snap < MaxSubSamples
    /\ slot = "None" => cb_ok
    /\ \E r \in {notify(slot, loop_iteration(svc, net, daily_usage, snap,
                                              reading, now, TRUE, TRUE, cb_ok))} :
           /\ net' = r.net
           /\ snap' = r.snap
           /\ svc' = r.svc
           /\ daily_usage' = r.rows
           /\ calls' = r.calls
           /\ escaped' = r.raised
           /\ delivered' = r.delivered
           /\ callback' = r.callback
           /\ n_upserts' = n_upserts + Len(r.calls)
           /\ folded' = IF r.folded THEN [folded EXCEPT ![now] = @ + 1]
                        ELSE folded
           /\ owed' = Owe(owed, r.calls)
           /\ op' = IF r.returned THEN "sample" ELSE "sample_failed"
           /\ inbox' = IF r.callback = "not called" THEN inbox
                       ELSE Noted(inbox, registered(slot), n_snap + 1)
           /\ expected' = IF r.returned
                          THEN Noted(expected, subscribed \cup registered(slot),
                                     n_snap + 1)
                          ELSE expected
    /\ counters' = IF reading.raises THEN counters
                   ELSE <<reading.sent, reading.recv>>
    /\ prev_counters' = IF reading.raises THEN prev_counters ELSE counters
    /\ n_snap' = IF reading.raises THEN n_snap ELSE n_snap + 1
    /\ pre' = today_usage(svc)
    /\ raised' = "None"
    /\ UNCHANGED <<now, n_stops, repo_vars, n_restarts, conc_vars, sql_vars, nic_vars,
                   slot, subscribed>>

NextSubs ==
    \/ \E h \in Handlers : Construct(h)
    \/ Start
    \/ \E h \in Handlers : Subscribe(h)
    \/ \E h \in Handlers : Unsubscribe(h)
    \/ \E reading \in LoopReadings : \E cb_ok \in BOOLEAN :
           SubSample(reading, cb_ok)

SpecSubs == InitStore /\ [][NextSubs]_vars

----------------------------------------------------------------------------
(* SpecAdapter: the provider with the configuration object it shares with    *)
(* the adapter settings window, and the interfaces of the machine            *)

\* The interfaces the machine can have.
Nics == {"eth0", "wlan0"}

\* psutil.net_io_counters(): the counters of the interfaces present, summed.
RECURSIVE net_io_counters(_)
net_io_counters(nics) ==
    IF DOMAIN nics = {} THEN <<0, 0>>
    ELSE LET nic == CHOOSE n \in DOMAIN nics : TRUE
             rest == net_io_counters([n \in DOMAIN nics \ {nic} |-> nics[n]])
         IN  <<nics[nic][1] + rest[1], nics[nic][2] + rest[2]>>

\* Variant: the adapter kept from the construction of the provider.
AdapterReadOnce(built_with, current) == built_with

\* self.config.monitored_adapter: self.config is the AppConfig object of the
\* configuration service, so the value is the one that object holds now.
configured_adapter(built_with, current) == current

\* Variant: counters[adapter] without the test that the adapter is there.
GetBytesWithoutFallback(adapter, nics) ==
    IF adapter = "All"
    THEN [raises |-> FALSE, sent |-> net_io_counters(nics)[1],
          recv |-> net_io_counters(nics)[2]]
    ELSE IF adapter \in DOMAIN nics
    THEN [raises |-> FALSE, sent |-> nics[adapter][1],
          recv |-> nics[adapter][2]]
    ELSE [raises |-> TRUE, sent |-> 0, recv |-> 0]

\* _get_current_bytes() with self.config.monitored_adapter = adapter.
get_current_bytes(adapter, nics) ==
    IF adapter = "All"
    THEN [raises |-> FALSE, sent |-> net_io_counters(nics)[1],
          recv |-> net_io_counters(nics)[2]]
    ELSE IF adapter \in DOMAIN nics
    THEN [raises |-> FALSE, sent |-> nics[adapter][1],
          recv |-> nics[adapter][2]]
    ELSE [raises |-> FALSE, sent |-> net_io_counters(nics)[1],
          recv |-> net_io_counters(nics)[2]]

\* An interface appears, its counters at zero.
Plug(nic) ==
    /\ nic \notin DOMAIN pernic
    /\ pernic' = [n \in DOMAIN pernic \cup {nic} |->
                     IF n = nic THEN <<0, 0>> ELSE pernic[n]]
    /\ op' = "plug"
    /\ UNCHANGED <<counters, prev_counters, now, net, svc, daily_usage, snap,
                   calls, escaped, pre, n_snap, n_upserts, n_stops, folded,
                   owed, loop_vars, repo_vars, n_restarts, conc_vars, sql_vars,
                   sub_vars, monitored_adapter, bytes_read, target0,
                   pernic_read>>

\* An interface is removed.
Unplug(nic) ==
    /\ nic \in DOMAIN pernic
    /\ pernic' = [n \in DOMAIN pernic \ {nic} |-> pernic[n]]
    /\ op' = "unplug"
    /\ UNCHANGED <<counters, prev_counters, now, net, svc, daily_usage, snap,
                   calls, escaped, pre, n_snap, n_upserts, n_stops, folded,
                   owed, loop_vars, repo_vars, n_restarts, conc_vars, sql_vars,
                   sub_vars, monitored_adapter, bytes_read, target0,
                   pernic_read>>

\* An interface sends one byte and receives two.
Traffic(nic) ==
    /\ nic \in DOMAIN pernic
    /\ pernic[nic][1] < MaxNicBytes
    /\ pernic' = [pernic EXCEPT ![nic] = <<@[1] + 1, @[2] + 2>>]
    /\ op' = "traffic"
    /\ UNCHANGED <<counters, prev_counters, now, net, svc, daily_usage, snap,
                   calls, escaped, pre, n_snap, n_upserts, n_stops, folded,
                   owed, loop_vars, repo_vars, n_restarts, conc_vars, sql_vars,
                   sub_vars, monitored_adapter, bytes_read, target0,
                   pernic_read>>

\* AdapterConfigWindow._on_select(choice): the shared AppConfig is changed
\* in place.
OnSelect(choice) ==
    /\ monitored_adapter # choice
    /\ monitored_adapter' = choice
    /\ op' = "select"
    /\ UNCHANGED <<counters, prev_counters, now, net, svc, daily_usage, snap,
                   calls, escaped, pre, n_snap, n_upserts, n_stops, folded,
                   owed, loop_vars, repo_vars, n_restarts, conc_vars, sql_vars,
                   sub_vars, pernic, bytes_read, target0,
                   pernic_read>>

\* NetworkProvider(config=config_service.config): a provider is built, and
\* reads its baseline.
NewProvider ==
    /\ \E r \in {get_current_bytes(
                     configured_adapter(monitored_adapter, monitored_adapter),
                     pernic)} :
           /\ bytes_read' = r
           /\ net' = IF r.raises THEN net ELSE init_counters(r.sent, r.recv)
           /\ counters' = IF r.raises THEN counters ELSE <<r.sent, r.recv>>
           /\ prev_counters' = IF r.raises THEN prev_counters
                               ELSE <<r.sent, r.recv>>
    /\ target0' = monitored_adapter
    /\ pernic_read' = pernic
    /\ op' = "construct"
    /\ UNCHANGED <<now, svc, daily_usage, snap, calls, escaped, pre, n_snap,
                   n_upserts, n_stops, folded, owed, loop_vars, repo_vars,
                   n_restarts, conc_vars, sql_vars, sub_vars,
                   monitored_adapter, pernic>>

\* snapshot() of the provider last built.
NicSnapshot ==
    /\ n_snap < MaxNicSnapshots
    /\ \E r \in {get_current_bytes(
                     configured_adapter(target0, monitored_adapter), pernic)} :
           /\ bytes_read' = r
           /\ IF r.raises
              THEN UNCHANGED <<net, snap, counters, prev_counters>>
              ELSE /\ \E s \in {snapshot(net, r.sent, r.recv)} :
                          net' = s.net /\ snap' = s.snap
                   /\ counters' = <<r.sent, r.recv>>
                   /\ prev_counters' = counters
    /\ n_snap' = n_snap + 1
    /\ pernic_read' = pernic
    /\ op' = "snapshot"
    /\ UNCHANGED <<now, svc, daily_usage, calls, escaped, pre, n_upserts,
                   n_stops, folded, owed, loop_vars, repo_vars, n_restarts,
                   conc_vars, sql_vars, sub_vars, monitored_adapter, pernic,
                   target0>>

NextAdapter ==
    \/ \E nic \in Nics : Plug(nic)
    \/ \E nic \in Nics : Unplug(nic)
    \/ \E nic \in Nics : Traffic(nic)
    \/ \E choice \in {"All"} \cup Nics : OnSelect(choice)
    \/ NewProvider
    \/ NicSnapshot

\* The provider of InitNet, built on a machine whose counters are zero.
InitAdapter == InitNet /\ counters = <<0, 0>>

SpecAdapter == InitAdapter /\ [][NextAdapter]_vars

----------------------------------------------------------------------------
(* Properties of NetworkProvider, checked under SpecNet *)

\* max(0, d), written out.
Clamped(d) == IF d > 0 THEN d ELSE 0

\* C1: every snapshot returned by snapshot() has up_speed, down_speed,
\* bytes_sent_delta and bytes_recv_delta >= 0, whatever the counters did,
\* falling counters included.
C1_NonNegative ==
    /\ snap.up_speed >= 0
    /\ snap.down_speed >= 0
    /\ snap.bytes_sent_delta >= 0
    /\ snap.bytes_recv_delta >= 0

\* Both counters fell between two reads and the snapshot reports zero.
C1_Witness ==
    /\ op = "snapshot"
    /\ counters[1] < prev_counters[1]
    /\ counters[2] < prev_counters[2]
    /\ snap = SpeedSnapshot(0, 0, 0, 0)

\* C2: the k-th snapshot() returns sentDelta = max(0, r_k.sent - r_(k-1).sent)
\* and recvDelta = max(0, r_k.recv - r_(k-1).recv), each direction on its own,
\* with up_speed = sentDelta and down_speed = recvDelta, and the baseline is
\* r_k after the call, also when a delta was clamped.
C2_DeltaAndBaseline ==
    op = "snapshot" =>
        /\ snap.bytes_sent_delta = Clamped(counters[1] - prev_counters[1])
        /\ snap.bytes_recv_delta = Clamped(counters[2] - prev_counters[2])
        /\ snap.up_speed = snap.bytes_sent_delta
        /\ snap.down_speed = snap.bytes_recv_delta
        /\ net.last_sent = counters[1]
        /\ net.last_recv = counters[2]

\* The reset of the scenario: (1500,2500) then (1200,2400) gives 0/0 and the
\* baseline (1200,2400).
C2_Witness ==
    /\ op = "snapshot"
    /\ n_snap = 2
    /\ prev_counters = <<1500, 2500>>
    /\ counters = <<1200, 2400>>
    /\ snap = SpeedSnapshot(0, 0, 0, 0)
    /\ net = [last_sent |-> 1200, last_recv |-> 2400]

\* C3 as stated: the first snapshot after construction is the clamped
\* difference between the first read after construction and the read at
\* construction, and it never equals the full cumulative counter unless the
\* reading at construction was zero.
C3_FirstSampleAsStated ==
    n_snap = 1 =>
        /\ snap.up_speed = Clamped(counters[1] - prev_counters[1])
        /\ snap.down_speed = Clamped(counters[2] - prev_counters[2])
        /\ prev_counters[1] # 0 => snap.up_speed # counters[1]
        /\ prev_counters[2] # 0 => snap.down_speed # counters[2]

\* C3, amended: the first snapshot after construction is the clamped
\* difference between the first read after construction and the read at
\* construction, and it differs from the full cumulative counter unless the
\* reading at construction was zero or the counter read is itself zero.
C3_FirstSampleBaseline ==
    n_snap = 1 =>
        /\ snap.up_speed = Clamped(counters[1] - prev_counters[1])
        /\ snap.down_speed = Clamped(counters[2] - prev_counters[2])
        /\ (prev_counters[1] # 0 /\ counters[1] # 0) => snap.up_speed # counters[1]
        /\ (prev_counters[2] # 0 /\ counters[2] # 0) => snap.down_speed # counters[2]

\* Built at (1000,2000), first read (1500,2500): the first snapshot is
\* 500/500, not 1500/2500.
C3_Witness ==
    /\ n_snap = 1
    /\ prev_counters = <<1000, 2000>>
    /\ counters = <<1500, 2500>>
    /\ snap = SpeedSnapshot(500, 500, 500, 500)

----------------------------------------------------------------------------
(* Properties of the accumulator, checked under Spec and SpecSteady *)

\* The last operation was a loop iteration that found the date changed.
RolloverIteration == op = "sample" /\ pre.day # now

\* The totals of a bucket for `day` that holds the snapshot sn and nothing else.
FreshBucket(day, sn) ==
    DailyUsage(day, sn.bytes_sent_delta, sn.bytes_recv_delta, sn.up_speed,
               sn.down_speed, 1)

\* The usage u holds at least the totals o.
Includes(u, o) ==
    /\ u.bytes_sent >= o.bytes_sent
    /\ u.bytes_recv >= o.bytes_recv
    /\ u.max_up_speed >= o.max_up_speed
    /\ u.max_down_speed >= o.max_down_speed
    /\ u.active_seconds >= o.active_seconds

\* The sampled intervals of date d that no stored row holds.
MissingOn(d) ==
    IF \E r \in Stored : r.day = d
    THEN folded[d] - (CHOOSE r \in Stored : r.day = d).active_seconds
    ELSE folded[d]

RECURSIVE MissingUpTo(_)
MissingUpTo(d) == IF d = 0 THEN 0 ELSE MissingOn(d) + MissingUpTo(d - 1)

C6_FlushEveryTen ==
    /\ n_upserts = n_snap \div 10
    /\ svc.active_secs = n_snap
    /\ calls # <<>> =>
          /\ Len(calls) = 1
          /\ n_snap % 10 = 0
          /\ calls[1].usage.active_seconds = 10 * n_upserts
    /\ n_snap = 9 => n_upserts = 0
    /\ n_snap = 10 => (n_upserts = 1 /\ calls[1].usage.active_seconds = 10)

\* The second periodic flush, after 20 samples.
C6_Witness ==
    /\ n_snap = 20
    /\ n_upserts = 2
    /\ calls[1].usage.active_seconds = 20

\* C7: stop() performs one flush of the running totals whatever the flush
\* counter, on a service never started too, and the flag is already clear
\* when the flush is made.
C7_StopFlushesOnce ==
    op = "stop" =>
        /\ Len(calls) = 1
        /\ calls[1].usage = pre
        /\ today_usage(svc) = pre
        /\ ~calls[1].running
        /\ ~svc.running
        /\ calls[1].ok =>
               \E r \in Stored :
                   /\ r.day = pre.day
                   /\ r.bytes_sent = pre.bytes_sent
                   /\ r.bytes_recv = pre.bytes_recv
                   /\ r.active_seconds = pre.active_seconds

\* stop() right after a periodic flush, with the flush counter at 0.
C7_Witness ==
    /\ op = "stop"
    /\ svc.thread = "started"
    /\ svc.flush_counter = 0
    /\ svc.active_secs = 10
    /\ Len(calls) = 1
    /\ calls[1].usage.active_seconds = 10

\* C8 as stated: once stop() has returned from a final flush that was
\* written, at most 9 sampled intervals are missing from the stored rows.
C8_LossBoundAsStated ==
    (op = "stop" /\ calls[1].ok) => MissingUpTo(MaxDay) <= 9

C10_NothingLostAsStated ==
    (op = "sample" /\ calls # <<>> /\ calls[Len(calls)].ok) =>
        \A d \in Days :
            owed[d].active_seconds > 0 =>
                \E r \in Stored : r.day = d /\ Includes(r, owed[d])

----------------------------------------------------------------------------
(* Properties of the service over restarts, checked under SpecResume *)

\* C16: a service built while the table holds a row for today starts with
\* that row's bytes, peaks and active seconds, and one built with no such
\* row starts from zero; so the running totals never fall below today's
\* stored row, and no flush after the restart writes less than it.
C16_ResumeFromStoredRow ==
    /\ op = "restart" =>
          /\ svc.today = now
          /\ today_usage(svc) =
                 IF \E u \in Stored : u.day = now
                 THEN CHOOSE u \in Stored : u.day = now
                 ELSE ZeroUsage(now)
    /\ \A u \in Stored : u.day = svc.today => Includes(today_usage(svc), u)

\* The process was restarted on a table that held today's row, two
\* intervals with traffic, and the new service holds that row's totals.
C16_Witness ==
    /\ op = "restart"
    /\ svc.active_secs = 2
    /\ svc.bytes_sent >= 1
    /\ svc.flush_counter = 0
    /\ ~svc.running
    /\ today_usage(svc) \in Stored

----------------------------------------------------------------------------
(* Properties of the loop, checked under SpecLoop *)

\* C11: when snapshot() raises in an interval the loop goes on to the next
\* one: the thread lives and the flag stays set; the running totals, the
\* active seconds, the current day and the flush counter are as they were,
\* no flush is issued, nothing is written, and on_speed_update is not called.
C11_FailedSampleSkipped ==
    [][op' = "sample_failed" =>
          /\ svc' = svc
          /\ svc'.running
          /\ svc'.thread = "started"
          /\ calls' = <<>>
          /\ daily_usage' = daily_usage
          /\ ~escaped'
          /\ delivered' = None
          /\ callback' = "not called"]_vars

\* snapshot() raised in the interval where the date had changed and the
\* tenth sample was due: no rollover, no flush, and the loop lives.
C11_Witness ==
    /\ op = "sample_failed"
    /\ svc.running
    /\ svc.thread = "started"
    /\ svc.flush_counter = 9
    /\ svc.active_secs = 9
    /\ svc.today # now
    /\ pre = today_usage(svc)
    /\ n_upserts = 0

\* C12: an on_speed_update that raises on the snapshot of an interval does
\* not end the loop and does not touch persistence: the snapshot is folded
\* (after the rollover, if the date changed), the flush counter advances, the
\* periodic flush that is due is made with the totals that hold the
\* snapshot, and the loop goes on to the next interval.
C12_CallbackFailureIgnored ==
    [][(op' = "sample" /\ callback' = "raised") =>
          LET base == IF now = svc.today THEN svc ELSE rollover_reset(svc, now)
              due == svc.flush_counter + 1 >= FLUSH_INTERVAL
          IN  /\ delivered' = snap'
              /\ svc'.today = now
              /\ svc'.bytes_sent = base.bytes_sent + snap'.bytes_sent_delta
              /\ svc'.bytes_recv = base.bytes_recv + snap'.bytes_recv_delta
              /\ svc'.max_up = max(base.max_up, snap'.up_speed)
              /\ svc'.max_down = max(base.max_down, snap'.down_speed)
              /\ svc'.active_secs = base.active_secs + 1
              /\ svc'.flush_counter = IF due THEN 0 ELSE svc.flush_counter + 1
              /\ due => /\ calls' # <<>>
                        /\ calls'[Len(calls')].usage = today_usage(svc')
                        /\ calls'[Len(calls')].ok =>
                               get_daily(daily_usage', now) # None
              /\ ~due => \A i \in DOMAIN calls' : calls'[i].usage.day # now
              /\ ~escaped'
              /\ svc'.running
              /\ svc'.thread = "started"]_vars

\* on_speed_update raised on the tenth snapshot, which carried traffic: the
\* snapshot is in the totals and in the row the periodic flush wrote.
C12_Witness ==
    /\ op = "sample"
    /\ callback = "raised"
    /\ snap.bytes_sent_delta = 1
    /\ svc.active_secs = 10
    /\ svc.flush_counter = 0
    /\ svc.running
    /\ Len(calls) = 1
    /\ calls[1].ok
    /\ today_usage(svc) \in Stored

----------------------------------------------------------------------------
(* Properties of the repository, checked under SpecStore *)

\* The text a date is stored under.
Key(d) == isoformat(d)

\* The row of the table t stored under the date d, if there is one.
HasRow(t, d) == \E r \in t : r[1] = Key(d)

RowOf(t, d) == CHOOSE r \in t : r[1] = Key(d)

\* C13: upsert_daily(u) on a store with no row for u.day inserts u unchanged;
\* on a store with a row r for u.day it leaves one row for that day with the
\* bytes and active seconds of u (replaced, not added) and the larger of r's
\* and u's peaks; the rows of all other days are unchanged.
C13_UpsertInsertsOrMerges ==
    op = "upsert_daily" =>
        /\ Cardinality({r \in daily_usage : r[1] = Key(arg.day)}) = 1
        /\ ~HasRow(rows_pre, arg.day) =>
               RowOf(daily_usage, arg.day) =
                   <<Key(arg.day), arg.bytes_sent, arg.bytes_recv,
                     arg.max_up_speed, arg.max_down_speed, arg.active_seconds>>
        /\ HasRow(rows_pre, arg.day) =>
               LET r == RowOf(rows_pre, arg.day)
               IN  RowOf(daily_usage, arg.day) =
                       <<Key(arg.day), arg.bytes_sent, arg.bytes_recv,
                         IF r[4] >= arg.max_up_speed THEN r[4] ELSE arg.max_up_speed,
                         IF r[5] >= arg.max_down_speed THEN r[5] ELSE arg.max_down_speed,
                         arg.active_seconds>>
        /\ {r \in daily_usage : r[1] # Key(arg.day)}
               = {r \in rows_pre : r[1] # Key(arg.day)}

\* A row with larger bytes and a higher upload peak was upserted with smaller
\* bytes and a higher download peak, beside the row of another day.
C13_Witness ==
    /\ op = "upsert_daily"
    /\ HasRow(rows_pre, arg.day)
    /\ RowOf(rows_pre, arg.day)[2] > arg.bytes_sent
    /\ RowOf(rows_pre, arg.day)[4] > arg.max_up_speed
    /\ RowOf(rows_pre, arg.day)[5] < arg.max_down_speed
    /\ RowOf(daily_usage, arg.day)[2] = arg.bytes_sent
    /\ Cardinality(daily_usage) >= 2

\* C14: peak monotonicity: whatever the order and the values of the upserts
\* of a day, the stored max_up_speed and max_down_speed after each upsert are
\* the largest values passed so far for that day, and an upsert never lowers
\* them.
C14_PeakMonotonicity ==
    /\ \A d \in StoreDays :
          HasRow(daily_usage, d) =>
              /\ RowOf(daily_usage, d)[4] = passed[d][1]
              /\ RowOf(daily_usage, d)[5] = passed[d][2]
    /\ op = "upsert_daily" =>
          \A d \in StoreDays :
              HasRow(rows_pre, d) =>
                  /\ HasRow(daily_usage, d)
                  /\ RowOf(daily_usage, d)[4] >= RowOf(rows_pre, d)[4]
                  /\ RowOf(daily_usage, d)[5] >= RowOf(rows_pre, d)[5]

\* An upsert with a lower upload peak than the stored one left the stored
\* peaks, which no single upsert had passed together.
C14_Witness ==
    /\ op = "upsert_daily"
    /\ HasRow(rows_pre, arg.day)
    /\ arg.max_up_speed < RowOf(rows_pre, arg.day)[4]
    /\ RowOf(rows_pre, arg.day)[5] = 4
    /\ RowOf(daily_usage, arg.day)[4] = 3
    /\ RowOf(daily_usage, arg.day)[5] = 4

\* The sums and maxima of the usages of a sequence.
RECURSIVE Total(_, _)
Total(mu, us) ==
    IF us = <<>> THEN mu
    ELSE Total([mu EXCEPT !.bytes_sent = @ + Head(us).bytes_sent,
                          !.bytes_recv = @ + Head(us).bytes_recv,
                          !.max_up_speed = IF @ >= Head(us).max_up_speed THEN @
                                           ELSE Head(us).max_up_speed,
                          !.max_down_speed = IF @ >= Head(us).max_down_speed THEN @
                                             ELSE Head(us).max_down_speed,
                          !.active_seconds = @ + Head(us).active_seconds,
                          !.days_tracked = @ + 1],
               Tail(us))

\* The stored usages of the month m of the year y.
InMonth(y, m) == {u \in Stored : year(u.day) = y /\ month(u.day) = m}

\* C18: get_monthly(y, m) returns the sums of bytes_sent, bytes_recv and
\* active_seconds and the maxima of the peaks over exactly the stored rows
\* whose day has year y and month m, which are the rows get_range returns
\* for the first to the last day of that month, with days_tracked their
\* number; for a month with no rows every field is 0.
C18_MonthlyAggregation ==
    op = "get_monthly" =>
        LET y == arg.year
            m == arg.month
            zero == MonthlyUsage(y, m, 0, 0, 0, 0, 0, 0)
            ranged == IF m \in 1..12
                      THEN get_range(daily_usage, first_day(y, m), last_day(y, m))
                      ELSE <<>>
        IN  /\ {ranged[i] : i \in DOMAIN ranged} = InMonth(y, m)
            /\ ret = Total(zero, ranged)
            /\ ret.days_tracked = Cardinality(InMonth(y, m))
            /\ InMonth(y, m) = {} => ret = zero

\* The two rows of February 2024 summed, with the rows of January 2024 and
\* of February 2025 in the table.
C18_Witness ==
    /\ op = "get_monthly"
    /\ arg = [year |-> 2024, month |-> 2]
    /\ Cardinality(daily_usage) = 4
    /\ ret.days_tracked = 2
    /\ ret.bytes_sent = 7
    /\ ret.bytes_recv = 16
    /\ ret.max_up_speed = 3
    /\ ret.max_down_speed = 4

\* C19: get_range(start, end) returns exactly the stored rows with
\* start <= day <= end, both ends included, in strictly ascending order of
\* day, and the empty sequence when no row is in the range, as when
\* start > end.
C19_RangeQuery ==
    op = "get_range" =>
        /\ {ret[i] : i \in DOMAIN ret}
               = {u \in Stored : arg.start <= u.day /\ u.day <= arg.end}
        /\ \A i \in DOMAIN ret : \A j \in DOMAIN ret :
               i < j => ret[i].day < ret[j].day
        /\ arg.start > arg.end => ret = <<>>

\* Three rows from the last day of January 2024 to the leap day, both ends
\* included, and the row of 2025 left out.
C19_Witness ==
    /\ op = "get_range"
    /\ arg.start = date(2024, 1, 31)
    /\ arg.end = date(2024, 2, 29)
    /\ Len(ret) = 3
    /\ ret[1].day = arg.start
    /\ ret[3].day = arg.end
    /\ Cardinality(daily_usage) = 4

\* C20: get_daily(day) returns the row stored under that day and None when
\* there is none; after upsert_daily(u) on a store with no row for u.day,
\* get_daily(u.day) is a record equal to u; get_daily does not change the
\* store.
C20_GetDailyRoundTrip ==
    /\ op = "get_daily" =>
          /\ daily_usage = rows_pre
          /\ ~HasRow(daily_usage, arg.day) => ret = None
          /\ HasRow(daily_usage, arg.day) =>
                LET r == RowOf(daily_usage, arg.day)
                IN  ret = DailyUsage(arg.day, r[2], r[3], r[4], r[5], r[6])
    /\ (op = "upsert_daily" /\ ~HasRow(rows_pre, arg.day)) =>
          get_daily(daily_usage, arg.day) = arg

\* get_daily found the row of the leap day, which the upsert before it had
\* inserted, among the rows of other days.
C20_Witness ==
    /\ op = "get_daily"
    /\ arg.day = date(2024, 2, 29)
    /\ ret = DailyUsage(date(2024, 2, 29), 2, 9, 1, 4, 1)
    /\ Cardinality(daily_usage) >= 3

\* The day keys a table holds.
DayKeys(t) == {r[1] : r \in t}

\* C21: after any sequence of upserts the store holds at most one row per day
\* key: an upsert for a day that already has a row creates no second row for
\* that day, and no operation of the repository removes a day key.
C21_OneRowPerDay ==
    [][/\ \A r \in daily_usage' : \A q \in daily_usage' : r[1] = q[1] => r = q
       /\ DayKeys(daily_usage) \subseteq DayKeys(daily_usage')]_vars

\* Every day has a row, and the last upsert changed the row of its day.
C21_Witness ==
    /\ op = "upsert_daily"
    /\ DayKeys(daily_usage) = {Key(d) : d \in StoreDays}
    /\ HasRow(rows_pre, arg.day)
    /\ RowOf(rows_pre, arg.day) # RowOf(daily_usage, arg.day)
    /\ Cardinality(daily_usage) = Cardinality(StoreDays)

----------------------------------------------------------------------------
(* Properties of the two threads, checked under SpecConc *)

C24_StopTerminates ==
    /\ [][caller_pc # "idle" /\ pc = "77" => pc' \in {"77", "exited"}]_vars
    /\ (caller_pc # "idle") ~> (pc = "exited")

\* stop() cleared the flag and made its flush while the loop thread was in
\* the middle of the fold; the thread finished that iteration, callback
\* included, and returned.
C24_Witness ==
    /\ pc = "exited"
    /\ caller_pc = "returned"
    /\ \E i \in DOMAIN issued :
           issued[i].kind = "stop" /\ issued[i].at \in {"100", "101", "102"}
    /\ delivered = snap
    /\ svc.active_secs = n_snap
    /\ n_snap >= 2


----------------------------------------------------------------------------
(* Properties of the shared connection, checked under SpecSql *)

\* C23: upsert_daily is atomic for concurrent readers: every row a get_daily,
\* get_range or get_monthly fetches while an upsert is in progress, and so
\* every record it returns, is for its day the complete row before an upsert
\* or the complete row after it, never a row with only some columns updated.
C23_AtomicForReaders ==
    /\ reader.pc # "idle" => reader.fetched \subseteq versions
    /\ op = "query_return" =>
           /\ reader.fetched \subseteq versions
           /\ arg.kind = "get_daily" =>
                  ret = None \/ \E r \in versions : ret = row_to_entity(r)
           /\ arg.kind = "get_range" =>
                  \A i \in DOMAIN ret : \E r \in versions : ret[i] = row_to_entity(r)
           /\ arg.kind = "get_monthly" =>
                  ret = get_monthly(reader.fetched, arg.year, arg.month)

\* A get_range returned two rows while upserts were made: the row of one day
\* as it was before an upsert replaced it, the row of the other day as an
\* upsert made during the query left it.
C23_Witness ==
    /\ op = "query_return"
    /\ arg.kind = "get_range"
    /\ Len(ret) = 2
    /\ \E r \in reader.fetched : r \in rows_pre /\ r \notin daily_usage
    /\ \E r \in reader.fetched : r \notin rows_pre /\ r \in daily_usage

----------------------------------------------------------------------------
(* Properties of the subscription interface, checked under SpecSubs *)

\* The number of the latest snapshot produced.
Latest == n_snap

\* C25, as stated: several handlers can be registered with subscribe() at
\* the same time; every snapshot the loop produces is delivered exactly once
\* to every handler registered when it is produced, and a handler receives
\* no snapshot produced after it was removed with unsubscribe().
C25_SubscribersAsStated ==
    /\ op \in {"subscribe", "unsubscribe"} => raised = "None"
    /\ \A h \in Handlers : inbox[h] = expected[h]

\* The handlers that count as registered: the one the service was built
\* with and those passed to subscribe().
Listening == subscribed \cup registered(slot)

\* The handler h received the latest snapshot.
GotLatest(h) == inbox[h] # <<>> /\ inbox[h][Len(inbox[h])] = Latest

\* C26, as stated: when one registered handler raises on a snapshot, the
\* same snapshot is still delivered to every other registered handler, and
\* the snapshot of the next interval is delivered to all of them, the one
\* that raised included.
C26_PerHandlerAsStated ==
    [][/\ (op' = "sample" /\ callback' = "raised") =>
              \A h \in Listening' \ {slot'} : GotLatest(h)'
       /\ (callback = "raised" /\ op' = "sample") =>
              \A h \in Listening' : GotLatest(h)']_vars

----------------------------------------------------------------------------
(* Properties of the monitored target, checked under SpecAdapter *)

\* Counter i of the interface nic, or 0 when it is absent.
Present(nic, i) == IF nic \in DOMAIN pernic THEN pernic[nic][i] ELSE 0

\* The counters of all interfaces together.
AllBytes == <<Present("eth0", 1) + Present("wlan0", 1),
              Present("eth0", 2) + Present("wlan0", 2)>>

\* What a read for the target does: the counters of the interface when the
\* target names one that is present, the aggregate otherwise.
ReadOf(target) ==
    IF target \in DOMAIN pernic THEN pernic[target] ELSE AllBytes

\* C27: when the configured target names an interface that is absent at
\* read time the read returns the aggregate over all interfaces and does not
\* raise; when the named interface is present it returns that interface's
\* counters, and when the target is "All" it returns the aggregate.
C27_FallbackToAggregate ==
    op \in {"snapshot", "construct"} =>
        /\ ~bytes_read.raises
        /\ monitored_adapter = "All" =>
               <<bytes_read.sent, bytes_read.recv>> = AllBytes
        /\ monitored_adapter \in DOMAIN pernic =>
               <<bytes_read.sent, bytes_read.recv>> = pernic[monitored_adapter]
        /\ (monitored_adapter # "All" /\ monitored_adapter \notin DOMAIN pernic) =>
               <<bytes_read.sent, bytes_read.recv>> = AllBytes

\* eth0 is the target and is absent, wlan0 has carried traffic: the read
\* returned wlan0's counters, the aggregate.
C27_Witness ==
    /\ op = "snapshot"
    /\ monitored_adapter = "eth0"
    /\ DOMAIN pernic = {"wlan0"}
    /\ pernic["wlan0"][1] > 0
    /\ bytes_read.sent = pernic["wlan0"][1]

\* C28, as stated: the target is read once, at construction: after a change
\* of the configuration's monitored adapter every sample of the existing
\* provider reads the counters of the target it was built with.
C28_TargetReadOnceAsStated ==
    op = "snapshot" => <<bytes_read.sent, bytes_read.recv>> = ReadOf(target0)

\* C28: the target is read from the shared configuration at every read:
\* after the settings window has changed monitored_adapter in place, the
\* next sample of the existing provider reads the counters of the new
\* target and reports their excess over the last reading of the old one; a
\* provider built afterwards takes its baseline from the new target.
C28_TargetFollowsConfig ==
    /\ (op = "snapshot" /\ monitored_adapter # target0) =>
           /\ counters = ReadOf(monitored_adapter)
           /\ net = [last_sent |-> counters[1], last_recv |-> counters[2]]
           /\ snap.bytes_sent_delta = Clamped(counters[1] - prev_counters[1])
           /\ snap.bytes_recv_delta = Clamped(counters[2] - prev_counters[2])
    /\ op = "construct" =>
           /\ target0 = monitored_adapter
           /\ net = [last_sent |-> ReadOf(monitored_adapter)[1],
                     last_recv |-> ReadOf(monitored_adapter)[2]]

\* The provider was built for eth0 and the window then selected "All": the
\* sample read the aggregate, more than eth0's counters, and reported
\* wlan0's total as the traffic of the interval.
C28_Witness ==
    /\ op = "snapshot"
    /\ target0 = "eth0"
    /\ monitored_adapter = "All"
    /\ DOMAIN pernic = Nics
    /\ counters # pernic["eth0"]
    /\ prev_counters = pernic["eth0"]
    /\ snap.bytes_sent_delta = pernic["wlan0"][1]
    /\ snap.bytes_sent_delta > 0

----------------------------------------------------------------------------
(* Properties of failing reads, checked under SpecQuery *)

\* C29: a failure of the store during get_daily, get_range or get_monthly
\* reaches the caller as an error: the query returns nothing (no None, no
\* empty list, no zero-filled MonthlyUsage in place of the data), and the
\* store is as it was.
C29_ReadFailureSurfaced ==
    (op = "query" /\ ~arg.ok) =>
        /\ ret.raised
        /\ raised # "None"
        /\ "value" \notin DOMAIN ret
        /\ daily_usage = rows_pre

\* A get_monthly failed on a store that holds rows of the month.
C29_Witness ==
    /\ op = "query"
    /\ ~arg.ok
    /\ arg.query.kind = "get_monthly"
    /\ selected(arg.query, daily_usage) # {}
    /\ raised = "sqlite3.Error"

----------------------------------------------------------------------------
(* Properties of the fold, checked under SpecLoop *)

\* C30: folding a snapshot adds its byte deltas to bytes_sent and
\* bytes_recv, raises max_up and max_down to its speeds where those are
\* larger, and adds 1 to active_seconds; a failed sample changes nothing.
\* Hence while the date of the bucket stays the same no running field
\* decreases, and active_seconds is the value the bucket began with (0 in
\* this specification, which starts from an empty store) plus the number of
\* snapshots folded.
C30_FoldExact ==
    [][/\ op' = "sample" =>
              LET base == IF now = svc.today THEN svc
                          ELSE [today |-> now, bytes_sent |-> 0,
                                bytes_recv |-> 0, max_up |-> 0, max_down |-> 0,
                                active_secs |-> 0]
              IN  /\ svc'.today = base.today
                  /\ svc'.bytes_sent = base.bytes_sent + snap'.bytes_sent_delta
                  /\ svc'.bytes_recv = base.bytes_recv + snap'.bytes_recv_delta
                  /\ svc'.max_up = IF snap'.up_speed > base.max_up
                                   THEN snap'.up_speed ELSE base.max_up
                  /\ svc'.max_down = IF snap'.down_speed > base.max_down
                                     THEN snap'.down_speed ELSE base.max_down
                  /\ svc'.active_secs = base.active_secs + 1
       /\ op' # "sample" => today_usage(svc') = today_usage(svc)
       /\ svc'.today = svc.today =>
              /\ svc'.bytes_sent >= svc.bytes_sent
              /\ svc'.bytes_recv >= svc.bytes_recv
              /\ svc'.max_up >= svc.max_up
              /\ svc'.max_down >= svc.max_down
              /\ svc'.active_secs >= svc.active_secs
       /\ svc'.active_secs = folded'[svc'.today]]_vars

\* Three snapshots were folded, one with a lower speed than the peak, and
\* then a sample failed: the totals hold the three and the peak of the
\* largest.
C30_Witness ==
    /\ op = "sample_failed"
    /\ n_snap = 3
    /\ svc.active_secs = 3
    /\ svc.max_up > snap.up_speed
    /\ svc.bytes_sent >= svc.max_up
    /\ svc.bytes_recv > 0

----------------------------------------------------------------------------
(* Properties of stop() beside the running loop, checked under SpecConc *)

\* The record u holds no more than the totals t.
Within(u, t) ==
    /\ u.bytes_sent <= t.bytes_sent
    /\ u.bytes_recv <= t.bytes_recv
    /\ u.max_up_speed <= t.max_up
    /\ u.max_down_speed <= t.max_down
    /\ u.active_seconds <= t.active_secs

\* C31, as stated: under every interleaving of stop() with the loop, a
\* rollover included, every record written under a date holds only totals
\* of snapshots folded while that date was the accumulator's: the totals of
\* the old date are never written under the new one.
C31_OwnDayAsStated ==
    \A i \in DOMAIN issued :
        issued[i].ok => Within(issued[i].usage, day_sum[issued[i].usage.day])

\* C32, as stated: every record passed to upsert_daily equals the totals as
\* they stood between two folds, never a mixture of fields of which some
\* hold the snapshot being folded and others do not, under every
\* interleaving of stop() with the loop.
C32_WholeRecordAsStated ==
    \A i \in DOMAIN issued : issued[i].usage \in stood

\* C33, as stated: once stop() has returned with a final write that
\* succeeded and the loop thread has returned, the stored row of the
\* accumulator's date equals the totals in memory: no snapshot is folded
\* after the final flush without being stored.
C33_NothingAfterFinalFlushAsStated ==
    (/\ caller_pc = "returned"
     /\ pc = "exited"
     /\ \E i \in DOMAIN issued : issued[i].kind = "stop" /\ issued[i].ok)
        => get_daily(daily_usage, svc.today) = today_usage(svc)

----------------------------------------------------------------------------
(* Properties of the flush counter, checked under SpecFlush *)

\* The seconds the rows rs hold.
RECURSIVE SumSeconds(_)
SumSeconds(rs) ==
    IF rs = {} THEN 0
    ELSE LET r == CHOOSE q \in rs : TRUE
         IN  r.active_seconds + SumSeconds(rs \ {r})

\* The folded snapshots that are in no stored row.
Unsaved == n_snap - SumSeconds(Stored)

\* The step made the flush of the threshold test.
ThresholdFlushed ==
    \E i \in DOMAIN issued' \ DOMAIN issued : issued'[i].kind = "periodic"

\* The flushes of the threshold test that failed.
FailedPeriodic == {i \in DOMAIN issued : issued[i].kind = "periodic" /\ ~issued[i].ok}

\* C34: between two iterations the flush counter is in 0..9; an iteration
\* that folds a snapshot advances it by one modulo 10, with or without a
\* change of date and whatever the writes did, and one whose snapshot fails
\* leaves it; the flush of the threshold test is made exactly in the
\* iterations that fold the 10th, 20th, ... snapshot, so two consecutive ones
\* are 10 folded snapshots apart; and while every write has succeeded at most
\* 9 folded snapshots are in no stored row.
C34_FlushEveryTenFolds ==
    [][/\ svc'.flush_counter \in 0..(FLUSH_INTERVAL - 1)
       /\ op' = "sample" =>
              svc'.flush_counter = (svc.flush_counter + 1) % FLUSH_INTERVAL
       /\ op' # "sample" => svc'.flush_counter = svc.flush_counter
       /\ ThresholdFlushed <=>
              (n_snap' # n_snap /\ n_snap' % FLUSH_INTERVAL = 0)
       /\ (\A i \in DOMAIN issued' : issued'[i].ok) =>
              Unsaved' <= FLUSH_INTERVAL - 1]_vars

\* Twenty snapshots were folded, some before and some after a change of
\* date, then a snapshot failed: the write of the rollover succeeded, the
\* flush of the 10th snapshot failed and that of the 20th succeeded.
C34_Witness ==
    /\ op = "sample_failed"
    /\ n_snap = 2 * FLUSH_INTERVAL
    /\ svc.flush_counter = 0
    /\ Len(issued) = 3
    /\ \E i \in DOMAIN issued : issued[i].kind = "rollover" /\ issued[i].ok
    /\ \E i \in DOMAIN issued : \E j \in DOMAIN issued :
           /\ i < j
           /\ issued[i].kind = "periodic" /\ ~issued[i].ok
           /\ issued[j].kind = "periodic" /\ issued[j].ok

\* C35: a flush of the threshold test that fails is not retried in the next
\* iteration: the counter is back at 0 after it as after one that succeeds,
\* the next such flush is made by the iteration that folds the 10th snapshot
\* after it, and until then, that flush being the only write that failed, at
\* most 19 folded snapshots are in no stored row.
C35_FailedFlushNotRetried ==
    [][/\ (ThresholdFlushed /\ FailedPeriodic' # FailedPeriodic) =>
              svc'.flush_counter = 0
       /\ (FailedPeriodic # {} /\ svc.flush_counter < FLUSH_INTERVAL - 1) =>
              ~ThresholdFlushed
       /\ (/\ Cardinality(FailedPeriodic') = 1
           /\ \A i \in DOMAIN issued' \ FailedPeriodic' : issued'[i].ok) =>
              Unsaved' <= 2 * FLUSH_INTERVAL - 1]_vars

\* The flush of the 10th snapshot failed and nine more snapshots were
\* folded since, on the same date: none of the 19 is stored.
C35_Witness ==
    /\ op = "sample"
    /\ Cardinality(FailedPeriodic) = 1
    /\ Len(issued) = 1
    /\ svc.flush_counter = FLUSH_INTERVAL - 1
    /\ svc.active_secs = 2 * FLUSH_INTERVAL - 1
    /\ Unsaved = 2 * FLUSH_INTERVAL - 1
    /\ Stored = {}

----------------------------------------------------------------------------
(* Properties of the peaks, checked under SpecConc *)

\* C36, as stated: in every reachable state the totals in memory, between
\* two folds, and every stored row have max_up_speed <= bytes_sent and
\* max_down_speed <= bytes_recv: the largest delta of one interval of a day
\* is no more than the bytes of the day.
C36_PeakWithinBytesAsStated ==
    /\ Settled(pc) => svc.max_up <= svc.bytes_sent /\ svc.max_down <= svc.bytes_recv
    /\ \A r \in Stored :
           r.max_up_speed <= r.bytes_sent /\ r.max_down_speed <= r.bytes_recv

----------------------------------------------------------------------------
(* Properties of the reported traffic, checked under SpecAdapter *)

\* The counters, among the interfaces nics, of the source a read takes now: the target's interface where the read found it, the aggregate of
\* all interfaces otherwise.  An interface that is not there has carried
\* nothing.
SourceIn(nics) ==
    IF monitored_adapter \in DOMAIN pernic
    THEN IF monitored_adapter \in DOMAIN nics THEN nics[monitored_adapter]
         ELSE <<0, 0>>
    ELSE net_io_counters(nics)

\* C37, as stated: the delta of a snapshot is never more than the increase,
\* since the read before, of the counters of the source that was read; when
\* a read changes between the target's interface and the aggregate, the
\* difference between the two counters is not reported as traffic.
C37_NoPhantomTrafficAsStated ==
    [][n_snap' # n_snap =>
           /\ snap'.bytes_sent_delta <=
                  Clamped(SourceIn(pernic)[1] - SourceIn(pernic_read)[1])
           /\ snap'.bytes_recv_delta <=
                  Clamped(SourceIn(pernic)[2] - SourceIn(pernic_read)[2])]_vars

----------------------------------------------------------------------------
(* Properties of the second stop(), checked under SpecExit *)

\* The step is the upsert_daily of the second stop().
SecondFlush == op' = "stop_flush" /\ n_stops = 2

\* The loop thread has returned and no statement of a fold has run since
\* stop() was first called.
Quiet == pc = "exited" /\ day_sum = stop_sum

\* The upsert_daily calls made by stop().
StopFlushes == {i \in DOMAIN issued : issued[i].kind = "stop"}

\* C38, as stated: when stop() is called a second time, the loop thread
\* having returned and no snapshot having been folded since the first call,
\* the second final flush leaves every stored row as it was.
C38_SecondStopAsStated ==
    [][(SecondFlush /\ Quiet) => daily_usage' = daily_usage]_vars

\* C38: when the write of the first stop() succeeded, the loop thread has
\* returned and no snapshot has been folded since the first call, the final
\* flush of the second stop() leaves every stored row as it was, whether
\* its own write succeeds or not.
C38_SecondStopIdempotent ==
    [][(/\ SecondFlush
        /\ Quiet
        /\ \E i \in StopFlushes : issued[i].ok) => daily_usage' = daily_usage]_vars

\* exit_app stopped the service after nine snapshots, the loop thread
\* returned, and _cleanup stopped it again: both writes succeeded and the
\* row of the day holds the totals.
C38_Witness ==
    /\ op = "stop_flush"
    /\ n_stops = 2
    /\ Quiet
    /\ Cardinality(StopFlushes) = 2
    /\ \A i \in StopFlushes : issued[i].ok
    /\ svc.active_secs = MinExitSamples
    /\ get_daily(daily_usage, svc.today) = today_usage(svc)

====
